---- MODULE Spec2Model ----
(***************************************************************************)
(* Column transformation ledger of the vDataFrame (verticapy,              *)
(* core/vdataframe/_math.py): vDataColumn.apply, vDataFrame.apply,         *)
(* vDataFrame.analytic and the helpers built on them.                      *)
(*                                                                         *)
(* A SQL text is a sequence of tokens (strings); the placeholder of a      *)
(* template is the token "{}".  A column alias is stored quoted, as the    *)
(* relation stores it.  The answer of the engine to a type probe is an     *)
(* input of the call: a data type, or ProbeFails.                          *)
(***************************************************************************)
EXTENDS Integers, Sequences, FiniteSets, TLC

VARIABLES
    columns,          \* self._vars["columns"]: the aliases, in display order
    transf,           \* alias -> vDataColumn._transf, a sequence of <<func, ctype, category>>
    catalog,          \* alias -> vDataColumn._catalog (<<>> when erased, else the chain it was computed for)
    catShare,         \* alias -> the other aliases whose _catalog is the very same object
    exclude_columns,  \* self._vars["exclude_columns"]
    history,          \* self._vars["history"]
    lastCall,         \* the last call made on the relation: its arguments and the exception it raised
    ncalls,           \* the calls made so far
    executed          \* the statements read_shp gave to _executeSQL, in the order it gave them

vars ==
    <<columns, transf, catalog, catShare, exclude_columns, history, lastCall, ncalls,
      executed>>

-----------------------------------------------------------------------------
(* Bounds of the exploration.                                              *)

\* the calls made on the relation, at most
MaxCalls == 2
\* random.randint(0, 10000000) draws from 0..MaxRand
MaxRand == 1
\* the calls of analytic made on the function names of every family, at most
MaxDispatchCalls == 1
\* the most rows a partition of the engine's table holds
MaxRows == 3
\* the calls of read_shp, at most
MaxReads == 1

-----------------------------------------------------------------------------
(* Text helpers.                                                           *)

Range(s) == {s[i] : i \in DOMAIN s}

Max2(x, y) == IF x >= y THEN x ELSE y

\* the names the explored calls can build (unquoted)
BaseNames == {"a", "b"}
ResultNames == {"r", "s", "t"}
ScratchKinds == {"mean", "median", "std", "count"}
ScratchName(column_str, kind, random_nb) ==
    column_str \o "_" \o kind \o "_" \o ToString(random_nb)
KnownNames ==
    BaseNames \cup ResultNames \cup {"n"}
    \cup {ScratchName(c, k, r) : c \in BaseNames, k \in ScratchKinds, r \in 0..MaxRand}
    \cup {n \o "_count" : n \in ResultNames}

Quoted == [n \in KnownNames |-> "\"" \o n \o "\""]

\* a quoted identifier stays as it is
quote_ident(s) ==
    IF s \in KnownNames THEN Quoted[s] ELSE s

Unquoted == [q \in {Quoted[n] : n \in KnownNames} |->
                CHOOSE n \in KnownNames : Quoted[n] = q]

\* str.replace('"', "") on an identifier
StripQuotes(s) ==
    IF s \in DOMAIN Unquoted THEN Unquoted[s] ELSE s

\* func.replace("{}", alias)
Substitute(func, alias) ==
    [i \in DOMAIN func |-> IF func[i] = "{}" THEN alias ELSE func[i]]

-----------------------------------------------------------------------------
(* The engine and the type classifier.                                     *)

ProbeFails == "QueryError"
Types == {"float"}
ProbeOutcomes == Types \cup {ProbeFails}

to_category(ctype) ==
    CASE ctype = "int" -> "int"
      [] ctype = "float" -> "float"
      [] ctype = "boolean" -> "bool"
      [] ctype = "vmap" -> "vmap"
      [] ctype = "array" -> "complex"
      [] OTHER -> "text"

-----------------------------------------------------------------------------
(* The relation as a value: the calls below are functions from a relation  *)
(* to a relation, so that a call made of several calls is their            *)
(* composition.  raised is "" while no exception is raised.                *)

Relation ==
    [columns |-> columns, transf |-> transf, catalog |-> catalog,
     catShare |-> catShare, exclude_columns |-> exclude_columns,
     history |-> history, raised |-> "", queries |-> 0]

Raise(st, exc) == [st EXCEPT !.raised = exc]

\* a query sent to the engine
Query(st) == [st EXCEPT !.queries = @ + 1]

is_colname_in(st, alias) == \E i \in DOMAIN st.columns : st.columns[i] = alias

\* the visible columns: all the columns minus exclude_columns
get_columns(st) ==
    SelectSeq(st.columns,
              LAMBDA c : \A i \in DOMAIN st.exclude_columns :
                             StripQuotes(st.exclude_columns[i]) # StripQuotes(c))

ctype(st, c) == st.transf[c][Len(st.transf[c])][2]
category(st, c) == st.transf[c][Len(st.transf[c])][3]

\* erase=True of _update_catalog: the column gets a new, empty catalog
update_catalog_erase(st, c) ==
    [st EXCEPT !.catalog[c] = <<>>,
               !.catShare = [d \in DOMAIN st.catShare |->
                                IF d = c THEN {} ELSE st.catShare[d] \ {c}]]

add_to_history(st, entry) == [st EXCEPT !.history = Append(st.history, entry)]

\* a new vDataColumn of the relation
new_column(st, alias, chain, cat) ==
    [st EXCEPT !.columns = Append(st.columns, alias),
               !.transf = [d \in DOMAIN st.transf \cup {alias} |->
                              IF d = alias THEN chain ELSE st.transf[d]],
               !.catalog = [d \in DOMAIN st.catalog \cup {alias} |->
                               IF d = alias THEN cat ELSE st.catalog[d]],
               !.catShare = [d \in DOMAIN st.catShare \cup {alias} |->
                                IF d = alias THEN {} ELSE st.catShare[d]]]

\* vDataColumn.add_copy(name): a new column with a copy of the chain
add_copy(st, c, name) ==
    LET alias == quote_ident(name)
    IN  IF is_colname_in(st, alias)
        THEN Raise(st, "NameError")
        ELSE new_column(st, alias, st.transf[c], st.catalog[c])

-----------------------------------------------------------------------------
(* vDataColumn.apply(func, copy_name)                                      *)

\* the test of the loop over the columns: the column is quoted in func, or
\* occurs in it as a whole word
IsReferenced(column, func) ==
    \E i \in DOMAIN func :
        \/ func[i] = quote_ident(column)
        \/ func[i] = StripQuotes(column)

RECURSIVE ScanFloor(_, _, _, _)
ScanFloor(st, all_cols, func, max_floor) ==
    IF all_cols = <<>> THEN max_floor
    ELSE LET column == Head(all_cols)
         IN  ScanFloor(st, Tail(all_cols), func,
                       IF IsReferenced(column, func)
                       THEN Max2(Len(st.transf[column]), max_floor)
                       ELSE max_floor)

\* max_floor after "max_floor -= len(self._transf)"
MaxFloor(st, c, func) ==
    ScanFloor(st, get_columns(st), func, 0) - Len(st.transf[c])

\* [("{}", self.ctype(), self.category())] * max_floor
Padding(st, c, max_floor) ==
    [k \in 1..Max2(max_floor, 0) |-> <<<<"{}">>, ctype(st, c), category(st, c)>>]

\* the entry with the template as it was given
ApplyHistoryEntry_unsubstituted(c, func) == <<"[Apply]", StripQuotes(c), func>>

ApplyHistoryEntry(c, func) ==
    <<"[Apply]", StripQuotes(c), Substitute(func, c)>>

\* the copy_name branch
ApplyCopy(st, c, func, copy_name, ct) ==
    LET copy_name_str == StripQuotes(copy_name)
        alias == quote_ident(copy_name_str)
        s1 == add_copy(st, c, copy_name_str)
        chain == s1.transf[alias] \o Padding(st, c, MaxFloor(st, c, func))
                     \o <<<<func, ct, to_category(ct)>>>>
    IN  IF s1.raised # "" THEN Raise(st, "QueryError")
        ELSE [s1 EXCEPT !.transf[alias] = chain,
                        !.catalog[alias] = st.catalog[c],
                        !.catShare = [d \in DOMAIN s1.catShare |->
                            IF d = alias THEN st.catShare[c] \cup {c}
                            ELSE IF d = c \/ d \in st.catShare[c]
                                 THEN s1.catShare[d] \cup {alias}
                                 ELSE s1.catShare[d]]]

\* the in-place branch, the new step written over the last one
ApplyInPlace_overwrite(st, c, func, ct) ==
    LET chain == SubSeq(st.transf[c], 1, Len(st.transf[c]) - 1)
                     \o <<<<func, ct, to_category(ct)>>>>
    IN  update_catalog_erase([st EXCEPT !.transf[c] = chain], c)

\* the in-place branch, the catalog of every column erased
ApplyInPlace_eraseAll(st, c, func, ct) ==
    LET chain == st.transf[c] \o Padding(st, c, MaxFloor(st, c, func))
                     \o <<<<func, ct, to_category(ct)>>>>
    IN  [st EXCEPT !.transf[c] = chain,
                   !.catalog = [d \in DOMAIN st.catalog |-> <<>>],
                   !.catShare = [d \in DOMAIN st.catShare |-> {}]]

\* the in-place branch
ApplyInPlace(st, c, func, ct) ==
    LET chain == st.transf[c] \o Padding(st, c, MaxFloor(st, c, func))
                     \o <<<<func, ct, to_category(ct)>>>>
    IN  update_catalog_erase([st EXCEPT !.transf[c] = chain], c)

\* the probe raised, the history entry written before it
ProbeFailed_logged(st, c, func) ==
    Raise(add_to_history(st, ApplyHistoryEntry(c, func)), "QueryError")

\* the probe raised: nothing was written yet
ProbeFailed(st, c, func) == Raise(st, "QueryError")

vDC_apply(st0, c, func, copy_name, probe) ==
    LET st == Query(st0)
    IN  IF probe = ProbeFails THEN ProbeFailed(st, c, func)
        ELSE LET s1 == IF copy_name # ""
                       THEN ApplyCopy(st, c, func, copy_name, probe)
                       ELSE ApplyInPlace(st, c, func, probe)
             IN  IF s1.raised # "" THEN s1
                 ELSE add_to_history(s1, ApplyHistoryEntry(c, func))

-----------------------------------------------------------------------------
(* vDataFrame.eval(name, expr): a new column defined by expr.              *)

\* the chain of a new column: as deep as the deepest column expr refers to
EvalChain(st, expr, ct) ==
    [k \in 1..ScanFloor(st, get_columns(st), expr, 0) |->
        <<<<"{}">>, ct, to_category(ct)>>]
    \o <<<<expr, ct, to_category(ct)>>>>

eval(st, name, expr, probe) ==
    LET alias == quote_ident(StripQuotes(name))
    IN  IF is_colname_in(st, alias) THEN Raise(st, "NameError")
        ELSE IF probe = ProbeFails THEN Raise(Query(st), "QueryError")
        ELSE new_column(Query(st), alias, EvalChain(st, expr, probe), <<>>)

-----------------------------------------------------------------------------
(* vDataFrame.apply(func): the columns of the dictionary, in its order.    *)
(* mapping is a sequence of <<column, func>>, probes the engine's answer   *)
(* to the probe of each.                                                   *)

RECURSIVE vDF_apply(_, _, _)
vDF_apply(st, mapping, probes) ==
    IF mapping = <<>> THEN st
    ELSE LET s1 == vDC_apply(st, Head(mapping)[1], Head(mapping)[2], "", Head(probes))
         IN  IF s1.raised # "" THEN s1
             ELSE vDF_apply(s1, Tail(mapping), Tail(probes))

\* vDataColumn.isbool() and isnum(): a boolean column counts as numeric
isbool(st, c) == ctype(st, c) = "boolean"
isnum(st, c) == category(st, c) \in {"int", "float", "bool"}

\* vDataFrame.numcol(): the visible numeric columns
numcol(st) == SelectSeq(get_columns(st), LAMBDA c : isnum(st, c))

\* func.replace("{}", "{}::int")
RECURSIVE CastPlaceholders(_)
CastPlaceholders(func) ==
    IF func = <<>> THEN <<>>
    ELSE (IF Head(func) = "{}" THEN <<"{}", "::int">> ELSE <<Head(func)>>)
         \o CastPlaceholders(Tail(func))

\* the template given to every column, the placeholder left without cast
applymap_dict_uncast(st, func, numeric_only) ==
    LET cols == IF numeric_only THEN numcol(st) ELSE get_columns(st)
    IN  [i \in DOMAIN cols |-> <<cols[i], func>>]

\* lines 885-890: the dictionary applymap builds
applymap_dict(st, func, numeric_only) ==
    LET cols == IF numeric_only THEN numcol(st) ELSE get_columns(st)
    IN  [i \in DOMAIN cols |->
            <<cols[i], IF ~isbool(st, cols[i]) THEN func ELSE CastPlaceholders(func)>>]

\* vDataFrame.applymap(func, numeric_only)
vDF_applymap(st, func, numeric_only, probes) ==
    vDF_apply(st, applymap_dict(st, func, numeric_only), probes)

-----------------------------------------------------------------------------
(* vDataFrame.analytic                                                     *)

\* str.lower() and str.upper(), on the names the explored calls give
LowerCase ==
    <<<<"MAX", "max">>, <<"max", "max">>, <<"min", "min">>, <<"avg", "avg">>,
      <<"sum", "sum">>, <<"count", "count">>, <<"stddev", "stddev">>,
      <<"median", "median">>, <<"variance", "variance">>,
      <<"lead", "lead">>, <<"lag", "lag">>, <<"row_number", "row_number">>,
      <<"percent_rank", "percent_rank">>, <<"dense_rank", "dense_rank">>,
      <<"rank", "rank">>, <<"first_value", "first_value">>,
      <<"last_value", "last_value">>,
      <<"exponential_moving_average", "exponential_moving_average">>,
      <<"ntile", "ntile">>, <<"bit_and", "bit_and">>, <<"5%x", "5%x">>>>

UpperCase ==
    <<<<"max", "MAX">>, <<"min", "MIN">>, <<"avg", "AVG">>, <<"sum", "SUM">>,
      <<"count", "COUNT">>, <<"stddev", "STDDEV">>, <<"median", "MEDIAN">>,
      <<"variance", "VARIANCE">>,
      <<"lead", "LEAD">>, <<"lag", "LAG">>, <<"row_number", "ROW_NUMBER">>,
      <<"percent_rank", "PERCENT_RANK">>, <<"dense_rank", "DENSE_RANK">>,
      <<"rank", "RANK">>, <<"first_value", "FIRST_VALUE">>,
      <<"last_value", "LAST_VALUE">>,
      <<"exponential_moving_average", "EXPONENTIAL_MOVING_AVERAGE">>,
      <<"ntile", "NTILE">>, <<"bit_and", "BIT_AND">>, <<"5%x", "5%X">>,
      <<"MAPSIZE", "MAPSIZE">>, <<"APPLY_COUNT_ELEMENTS", "APPLY_COUNT_ELEMENTS">>,
      <<"LENTGH", "LENTGH">>, <<"APPLY_max", "APPLY_MAX">>,
      <<"APPLY_avg", "APPLY_AVG">>, <<"ARRAY_DIMS", "ARRAY_DIMS">>,
      <<"abs", "ABS">>, <<"log", "LOG">>, <<"mod", "MOD">>, <<"ceil", "CEIL">>,
      <<"floor", "FLOOR">>, <<"round", "ROUND">>>>

\* the names with no upper case letter are their own lower case
Lower(func) ==
    IF \E i \in DOMAIN LowerCase : LowerCase[i][1] = func
    THEN LowerCase[CHOOSE i \in DOMAIN LowerCase : LowerCase[i][1] = func][2]
    ELSE func

Upper(func) ==
    UpperCase[CHOOSE i \in DOMAIN UpperCase : UpperCase[i][1] = func][2]

\* the names with a "%", as <<name, func[0:-1] when "%" is the last character>>
PercentNames ==
    <<<<"50%", "50">>, <<"100%", "100">>, <<"0%", "0">>, <<"150%", "150">>,
      <<"-5%", "-5">>, <<"1e2%", "1e2">>, <<"fifty%", "fifty">>, <<"%", "">>>>

\* "%" in func
ContainsPercent(func) ==
    func = "5%x" \/ \E i \in DOMAIN PercentNames : PercentNames[i][1] = func

\* "%" == func[-1]
EndsWithPercent(func) == \E i \in DOMAIN PercentNames : PercentNames[i][1] = func

\* func[0:-1]
PercentPrefix(func) ==
    PercentNames[CHOOSE i \in DOMAIN PercentNames : PercentNames[i][1] = func][2]

\* float(text), as <<text, value>>: the texts float() accepts
FloatTexts ==
    <<<<"50", 50>>, <<"100", 100>>, <<"0", 0>>, <<"150", 150>>, <<"-5", 0 - 5>>,
      <<"1e2", 100>>>>

IsFloat(text) == \E i \in DOMAIN FloatTexts : FloatTexts[i][1] = text

float(text) ==
    FloatTexts[CHOOSE i \in DOMAIN FloatTexts : FloatTexts[i][1] = text][2]

\* the text of v / 100 in an f-string, as <<v, text>>
HundredthTexts ==
    <<<<50, "0.5">>, <<100, "1.0">>, <<0, "0.0">>, <<150, "1.5">>,
      <<0 - 5, "-0.05">>>>

Div100Text(v) ==
    HundredthTexts[CHOOSE i \in DOMAIN HundredthTexts : HundredthTexts[i][1] = v][2]

\* _get_sort_syntax(order_by): "" when order_by is empty
get_sort_syntax(order_by) ==
    IF order_by = <<>> THEN <<>>
    ELSE <<"ORDER BY">> \o order_by

verticapy_agg_name(func) ==
    CASE func = "mode" -> "top"
      [] func = "mean" -> "avg"
      [] OTHER -> func

OrderIndependent ==
    {"max", "min", "avg", "sum", "count", "stddev", "median", "variance",
     "unique", "top", "kurtosis", "skewness", "mad", "aad", "range", "prod",
     "jb", "iqr", "sem"}

HigherMoment == {"skewness", "kurtosis", "aad", "mad", "jb"}

\* by = f"PARTITION BY {by}" if by else ""
PartitionBy(by) ==
    IF by = <<>> THEN <<>>
    ELSE <<"PARTITION BY">> \o by

EvalStep(name, expr) == [kind |-> "eval", name |-> name, expr |-> expr]
ApplyStep(name, func) == [kind |-> "apply", name |-> name, expr |-> func]
\* a raise statement of the branch
RaiseStep(exc) == [kind |-> "raise", name |-> exc, expr |-> <<>>]

\* the mean alone, whatever the function
ScratchSteps_meanOnly(func, col, by, random_nb) ==
    <<EvalStep(ScratchName(StripQuotes(col), "mean", random_nb),
               <<"AVG(", col, ") OVER (">> \o by \o <<")">>)>>

\* the scratch columns of a higher-moment call, in the order of their creation
ScratchSteps(func, col, by, random_nb) ==
    LET column_str == StripQuotes(col)
        over == <<") OVER (">> \o by \o <<")">>
    IN  (IF func = "mad"
         THEN <<EvalStep(ScratchName(column_str, "median", random_nb),
                         <<"MEDIAN(", col>> \o over)>>
         ELSE <<EvalStep(ScratchName(column_str, "mean", random_nb),
                         <<"AVG(", col>> \o over)>>)
        \o
        (IF func \notin {"aad", "mad"}
         THEN <<EvalStep(ScratchName(column_str, "std", random_nb),
                         <<"STDDEV(", col>> \o over),
                EvalStep(ScratchName(column_str, "count", random_nb),
                         <<"COUNT(", col>> \o over)>>
         ELSE <<>>)

\* the expression of the result column of a higher-moment call
MomentExpr(func, col, by, random_nb) ==
    LET column_str == StripQuotes(col)
        mean_name == ScratchName(column_str, "mean", random_nb)
        median_name == ScratchName(column_str, "median", random_nb)
        std_name == ScratchName(column_str, "std", random_nb)
        count_name == ScratchName(column_str, "count", random_nb)
        over == <<"OVER (">> \o by \o <<")">>
        moment(p) == <<"AVG(POWER((", col, "-", mean_name, ") / NULLIFZERO(",
                       std_name, "),", p, "))">> \o over
        kurt == moment("4")
                \o <<"* POWER(", count_name, ", 2) * (", count_name,
                     "+ 1) / NULLIFZERO((", count_name, "- 1) * (", count_name,
                     "- 2) * (", count_name, "- 3)) - 3 * POWER(", count_name,
                     "- 1, 2) / NULLIFZERO((", count_name, "- 2) * (",
                     count_name, "- 3))">>
        skew == moment("3")
                \o <<"* POWER(", count_name, ", 2) / NULLIFZERO((", count_name,
                     "- 1) * (", count_name, "- 2))">>
    IN  CASE func = "kurtosis" -> kurt
          [] func = "skewness" -> skew
          [] func = "jb" ->
                <<count_name, "/ 6 * (POWER(">> \o skew \o <<", 2) + POWER(">>
                \o kurt \o <<", 2) / 4)">>
          [] func = "aad" ->
                <<"AVG(ABS(", col, "-", mean_name, "))">> \o over
          [] func = "mad" ->
                <<"MEDIAN(ABS(", col, "-", median_name, "))">> \o over

\* the aliases appended to exclude_columns, the count column forgotten
ExcludedAfter_noCount(func, col, random_nb) ==
    LET column_str == StripQuotes(col)
    IN  CASE func \in {"kurtosis", "skewness", "jb"} ->
                <<quote_ident(ScratchName(column_str, "mean", random_nb)),
                  quote_ident(ScratchName(column_str, "std", random_nb))>>
          [] func = "aad" ->
                <<quote_ident(ScratchName(column_str, "mean", random_nb))>>
          [] func = "mad" ->
                <<quote_ident(ScratchName(column_str, "median", random_nb))>>
          [] OTHER -> <<>>

\* the aliases appended to exclude_columns at the end of the call
ExcludedAfter(func, col, random_nb) ==
    LET column_str == StripQuotes(col)
    IN  CASE func \in {"kurtosis", "skewness", "jb"} ->
                <<quote_ident(ScratchName(column_str, "mean", random_nb)),
                  quote_ident(ScratchName(column_str, "std", random_nb)),
                  quote_ident(ScratchName(column_str, "count", random_nb))>>
          [] func = "aad" ->
                <<quote_ident(ScratchName(column_str, "mean", random_nb))>>
          [] func = "mad" ->
                <<quote_ident(ScratchName(column_str, "median", random_nb))>>
          [] OTHER -> <<>>

\* the branch func == "top", add_count not read
TopSteps_noCount(col, by, name, add_count) ==
    LET by_str == IF by = <<>> THEN <<"PARTITION BY", col>>
                  ELSE by \o <<",", col>>
    IN  <<EvalStep(name, <<"ROW_NUMBER() OVER (">> \o by_str \o <<")">>),
          ApplyStep(name, <<"NTH_VALUE(", col, ", 1) OVER (">> \o by
                          \o <<"ORDER BY", "{}", "DESC)">>)>>

\* the branch func == "top"
TopSteps(col, by, name, add_count) ==
    LET by_str == IF by = <<>> THEN <<"PARTITION BY", col>>
                  ELSE by \o <<",", col>>
        name_str == StripQuotes(name)
    IN  <<EvalStep(name, <<"ROW_NUMBER() OVER (">> \o by_str \o <<")">>)>>
        \o (IF add_count
            THEN <<EvalStep(name_str \o "_count",
                            <<"NTH_VALUE(", name, ", 1) OVER (">> \o by
                            \o <<"ORDER BY", name, "DESC)">>)>>
            ELSE <<>>)
        \o <<ApplyStep(name, <<"NTH_VALUE(", col, ", 1) OVER (">> \o by
                             \o <<"ORDER BY", "{}", "DESC)">>)>>

\* the percentile, its prefix handed to the engine as it is written
PercentileSteps_unparsed(func, col, by, name) ==
    <<EvalStep(name, <<"PERCENTILE_CONT(", PercentPrefix(func),
                       ") WITHIN GROUP(ORDER BY", col, ") OVER (">>
                     \o by \o <<")">>)>>

\* lines 508-521: the percentile "x%"
PercentileSteps(func, col, by, name) ==
    IF ~IsFloat(PercentPrefix(func)) THEN <<RaiseStep("ValueError")>>
    ELSE <<EvalStep(name, <<"PERCENTILE_CONT(", Div100Text(float(PercentPrefix(func))),
                            ") WITHIN GROUP(ORDER BY", col, ") OVER (">>
                          \o by \o <<")">>)>>

\* the statements of the branch taken for func, in order
AnalyticSteps(func, cols, by, name, add_count, random_nb) ==
    CASE func \in HigherMoment ->
            ScratchSteps(func, cols[1], by, random_nb)
            \o <<EvalStep(name, MomentExpr(func, cols[1], by, random_nb))>>
      [] func = "top" -> TopSteps(cols[1], by, name, add_count)
      [] func = "unique" ->
            <<EvalStep(name, <<"DENSE_RANK() OVER (">> \o by
                             \o <<"ORDER BY", cols[1], "ASC) + DENSE_RANK() OVER (">>
                             \o by \o <<"ORDER BY", cols[1], "DESC) - 1">>)>>
      [] EndsWithPercent(func) -> PercentileSteps(func, cols[1], by, name)
      [] func = "range" ->
            <<EvalStep(name, <<"MAX(", cols[1], ") OVER (">> \o by
                             \o <<") - MIN(", cols[1], ") OVER (">> \o by \o <<")">>)>>
      [] func = "iqr" ->
            <<EvalStep(name, <<"PERCENTILE_CONT(", "0.75", ") WITHIN GROUP(ORDER BY",
                               cols[1], ") OVER (">> \o by
                             \o <<") - PERCENTILE_CONT(", "0.25",
                                  ") WITHIN GROUP(ORDER BY", cols[1], ") OVER (">>
                             \o by \o <<")">>)>>
      [] func = "sem" ->
            <<EvalStep(name, <<"STDDEV(", cols[1], ") OVER (">> \o by
                             \o <<") / SQRT(COUNT(", cols[1], ") OVER (">> \o by
                             \o <<"))">>)>>
      [] func = "prod" ->
            <<EvalStep(name, <<"DECODE(ABS(MOD(SUM(CASE WHEN", cols[1],
                               "< 0 THEN 1 ELSE 0 END) OVER (">> \o by
                             \o <<"), 2)), 0, 1, -1) * POWER(10, SUM(LOG(ABS(",
                                  cols[1], "))) OVER (">> \o by \o <<"))">>)>>
      [] OTHER ->
            <<EvalStep(name, <<Upper(func), "(", cols[1], ") OVER (">> \o by \o <<")">>)>>

\* lines 550-605: the ranking and offset functions
Ranking ==
    {"lead", "lag", "row_number", "percent_rank", "dense_rank", "rank",
     "first_value", "last_value", "exponential_moving_average", "pct_change"}

NeedsColumn == {"lead", "lag", "first_value", "last_value", "pct_change"}

TakesColumn == NeedsColumn \cup {"exponential_moving_average"}

\* the defaults of the parameters offset and x_smoothing
DefaultOffset == 1
DefaultSmoothing == "0.5"

\* no parameter after the column
info_param_none(func, offset, x_smoothing) == <<>>

info_param(func, offset, x_smoothing) ==
    CASE func \in {"lead", "lag"} -> <<",", ToString(offset)>>
      [] func \in {"last_value", "first_value"} -> <<"IGNORE NULLS">>
      [] func = "exponential_moving_average" -> <<",", x_smoothing>>
      [] OTHER -> <<>>

RankingSteps(func, cols, by, order_by, name, offset, x_smoothing) ==
    IF cols = <<>> /\ func \in NeedsColumn THEN <<RaiseStep("ValueError")>>
    ELSE IF cols # <<>> /\ func \notin TakesColumn THEN <<RaiseStep("ValueError")>>
    ELSE IF func = "pct_change"
    THEN <<EvalStep(name, <<cols[1], "/ (LAG(", cols[1], ") OVER (">>
                          \o by \o order_by \o <<"))">>)>>
    ELSE LET columns0 == IF cols # <<>> THEN <<cols[1]>> ELSE <<>>
         IN  <<EvalStep(name, <<Upper(func), "(">> \o columns0
                              \o info_param(func, offset, x_smoothing)
                              \o <<") OVER (">> \o by \o order_by \o <<")">>)>>

\* the expression of corr, cov and beta, beta normalised by the variance of
\* the first column
PairExpr_firstVariance(func, cols, by) ==
    IF cols[1] = cols[2]
    THEN IF func = "cov"
         THEN <<"VARIANCE(", cols[1], ") OVER (">> \o by \o <<")">>
         ELSE <<"1">>
    ELSE LET den == CASE func = "corr" ->
                            <<"/ (STDDEV(", cols[1], ") OVER (">> \o by
                            \o <<") * STDDEV(", cols[2], ") OVER (">> \o by \o <<"))">>
                      [] func = "beta" ->
                            <<"/ (VARIANCE(", cols[1], ") OVER (">> \o by \o <<"))">>
                      [] OTHER -> <<>>
         IN  <<"(AVG(", cols[1], "*", cols[2], ") OVER (">> \o by
             \o <<") - AVG(", cols[1], ") OVER (">> \o by
             \o <<") * AVG(", cols[2], ") OVER (">> \o by \o <<"))">> \o den

\* lines 616-631: the expression of corr, cov and beta
PairExpr(func, cols, by) ==
    IF cols[1] = cols[2]
    THEN IF func = "cov"
         THEN <<"VARIANCE(", cols[1], ") OVER (">> \o by \o <<")">>
         ELSE <<"1">>
    ELSE LET den == CASE func = "corr" ->
                            <<"/ (STDDEV(", cols[1], ") OVER (">> \o by
                            \o <<") * STDDEV(", cols[2], ") OVER (">> \o by \o <<"))">>
                      [] func = "beta" ->
                            <<"/ (VARIANCE(", cols[2], ") OVER (">> \o by \o <<"))">>
                      [] OTHER -> <<>>
         IN  <<"(AVG(", cols[1], "*", cols[2], ") OVER (">> \o by
             \o <<") - AVG(", cols[1], ") OVER (">> \o by
             \o <<") * AVG(", cols[2], ") OVER (">> \o by \o <<"))">> \o den

\* lines 606-632: the assert on the number of columns, then the eval
PairSteps(func, cols, by, name) ==
    IF Len(cols) # 2 THEN <<RaiseStep("AssertionError")>>
    ELSE <<EvalStep(name, PairExpr(func, cols, by))>>

\* lines 633-644: the f-string reads info_param, which this branch never
\* assigned; the bare except turns the error into ValueError
UnknownSteps(func, cols, by, order_by, name) == <<RaiseStep("ValueError")>>

\* the statements of the branches outside the order-independent family
OtherSteps(func, cols, by, order_by, name, offset, x_smoothing) ==
    CASE func \in Ranking ->
            RankingSteps(func, cols, by, order_by, name, offset, x_smoothing)
      [] func \in {"corr", "cov", "beta"} -> PairSteps(func, cols, by, name)
      [] OTHER -> UnknownSteps(func, cols, by, order_by, name)

RECURSIVE RunSteps(_, _, _)
RunSteps(st, steps, probes) ==
    IF steps = <<>> THEN st
    ELSE LET step == Head(steps)
             s1 == CASE step.kind = "eval" ->
                            eval(st, step.name, step.expr, Head(probes))
                     [] step.kind = "apply" ->
                            vDC_apply(st, quote_ident(StripQuotes(step.name)),
                                      step.expr, "", Head(probes))
                     [] OTHER -> Raise(st, step.name)
         IN  IF s1.raised # "" THEN s1
             ELSE RunSteps(s1, Tail(steps), Tail(probes))

\* the check of the input column, an order_by refused
MissingColumnCheck_orderRefused(cols, order_by, print_info) ==
    IF order_by # <<>> THEN "ValueError"
    ELSE IF cols = <<>> THEN "MissingColumn"
    ELSE ""

\* lines 396-426: the warning, or the check of the input column
MissingColumnCheck(cols, order_by, print_info) ==
    IF order_by # <<>> /\ ~print_info THEN ""
    ELSE IF cols = <<>> THEN "MissingColumn"
    ELSE ""

\* the check passed with no column: float(func[0:-1]) raises first for a
\* malformed percentile, columns[0] raises for every other function
EmptyColumnsError(func) ==
    IF EndsWithPercent(func) /\ ~IsFloat(PercentPrefix(func)) THEN "ValueError"
    ELSE "IndexError"

\* analytic, the scratch columns excluded as soon as they are created, so
\* that a call that fails leaves them hidden
analytic_excludeFirst(st, func0, cols, by0, order_by, name, add_count, random_nb, print_info, offset, x_smoothing, probes) ==
    LET func == verticapy_agg_name(Lower(func0))
        by == PartitionBy(by0)
    IN  IF ~(func \in OrderIndependent \/ ContainsPercent(func))
        THEN RunSteps(st, OtherSteps(func, cols, by, get_sort_syntax(order_by), name,
                                     offset, x_smoothing),
                      probes)
        ELSE IF MissingColumnCheck(cols, order_by, print_info) # ""
        THEN Raise(st, MissingColumnCheck(cols, order_by, print_info))
        ELSE IF cols = <<>> THEN Raise(st, EmptyColumnsError(func))
        ELSE LET s1 == RunSteps(st, AnalyticSteps(func, cols, by, name, add_count, random_nb),
                                probes)
                 made == SelectSeq(ExcludedAfter(func, cols[1], random_nb),
                                   LAMBDA x : is_colname_in(s1, x) /\ ~is_colname_in(st, x))
             IN  [s1 EXCEPT !.exclude_columns = s1.exclude_columns \o made]

analytic(st, func0, cols, by0, order_by, name, add_count, random_nb, print_info, offset, x_smoothing, probes) ==
    LET func == verticapy_agg_name(Lower(func0))
        by == PartitionBy(by0)
    IN  IF ~(func \in OrderIndependent \/ ContainsPercent(func))
        THEN RunSteps(st, OtherSteps(func, cols, by, get_sort_syntax(order_by), name,
                                     offset, x_smoothing),
                      probes)
        ELSE IF MissingColumnCheck(cols, order_by, print_info) # ""
        THEN Raise(st, MissingColumnCheck(cols, order_by, print_info))
        ELSE IF cols = <<>> THEN Raise(st, EmptyColumnsError(func))
        ELSE LET s1 == RunSteps(st, AnalyticSteps(func, cols, by, name, add_count, random_nb),
                                probes)
             IN  IF s1.raised # "" THEN s1
                 ELSE [s1 EXCEPT !.exclude_columns =
                          s1.exclude_columns \o ExcludedAfter(func, cols[1], random_nb)]

-----------------------------------------------------------------------------
(* The helpers built on vDataColumn.apply.                                 *)

AbsTemplate == <<"ABS(", "{}", ")">>

vDC_abs(st, c, probe) == vDC_apply(st, c, AbsTemplate, "", probe)

\* assert x != 0, then "{} / (x)"
vDC_div(st, c, x, probe) ==
    IF x = 0 THEN Raise(st, "AssertionError")
    ELSE vDC_apply(st, c, <<"{}", "/ (", ToString(x), ")">>, "", probe)

\* the second argument of apply_fun: a number or a string, as the characters
\* of str(x)
XValues ==
    {[isstr |-> FALSE, chars |-> <<"2">>],
     [isstr |-> TRUE, chars |-> <<"v">>],
     [isstr |-> TRUE, chars |-> <<"i", "t", "'", "s">>],
     [isstr |-> TRUE, chars |-> <<"'">>]}

\* the text made of the characters
RECURSIVE Join(_)
Join(chars) ==
    IF chars = <<>> THEN "" ELSE Head(chars) \o Join(Tail(chars))

\* str.replace("'", "''")
RECURSIVE DoubleQuotes(_)
DoubleQuotes(chars) ==
    IF chars = <<>> THEN <<>>
    ELSE (IF Head(chars) = "'" THEN <<"'", "'">> ELSE <<Head(chars)>>)
         \o DoubleQuotes(Tail(chars))

\* the string between quotes, its own quotes left as they are
SqlQuoted_plain(chars) == <<"'">> \o chars \o <<"'">>

\* "'" + str(x).replace("'", "''") + "'"
SqlQuoted(chars) == <<"'">> \o DoubleQuotes(chars) \o <<"'">>

\* lines 1468-1501
vDC_apply_fun(st, c, func0, x, probe) ==
    LET func1 == CASE func0 = "mean" -> "avg"
                   [] func0 = "length" -> "len"
                   [] OTHER -> func0
        cat == category(st, c)
        func == CASE func1 = "len" ->
                        (CASE cat = "vmap" -> "MAPSIZE"
                           [] cat = "complex" -> "APPLY_COUNT_ELEMENTS"
                           [] OTHER -> "LENTGH")
                  [] func1 \in {"max", "min", "sum", "avg", "count"} ->
                        "APPLY_" \o func1
                  [] func1 = "dim" -> "ARRAY_DIMS"
                  [] OTHER -> func1
        expr == CASE func \notin {"log", "mod", "pow", "round", "contain", "find"} ->
                        <<Upper(func) \o "(", "{}", ")">>
                  [] func = "log" ->
                        <<Upper(func) \o "(", Join(x.chars), ",", "{}", ")">>
                  [] func \in {"mod", "pow", "round"} ->
                        <<Upper(func) \o "(", "{}", ",", Join(x.chars), ")">>
                  [] OTHER ->
                        LET f == IF func = "contain"
                                 THEN IF cat = "vmap" THEN "MAPCONTAINSVALUE"
                                      ELSE "CONTAINS"
                                 ELSE "ARRAY_FIND"
                            xq == IF x.isstr THEN Join(SqlQuoted(x.chars))
                                  ELSE Join(x.chars)
                        IN  <<f \o "(", "{}", ",", xq, ")">>
    IN  vDC_apply(st, c, expr, "", probe)

\* the dictionary with the boolean columns kept
abs_dict_withBooleans(st, cols) ==
    LET cs == IF cols = <<>> THEN numcol(st) ELSE cols
    IN  [i \in DOMAIN cs |-> <<cs[i], AbsTemplate>>]

\* lines 165-170: the dictionary vDataFrame.abs builds
abs_dict(st, cols) ==
    LET cs == IF cols = <<>> THEN numcol(st) ELSE cols
        sel == SelectSeq(cs, LAMBDA c : ~isbool(st, c))
    IN  [i \in DOMAIN sel |-> <<sel[i], AbsTemplate>>]

\* vDataFrame.abs(columns)
vDF_abs(st, cols, probes) == vDF_apply(st, abs_dict(st, cols), probes)

\* What a call leaves and gives back: the relation it was called on, and
\* the relation it returns, which is that same object ("self") or a new one.
ReturnsSelf(st) == [self |-> st, ret |-> "self", value |-> st]

ReturnsCopy(st, vdf) ==
    [self |-> [st EXCEPT !.raised = vdf.raised, !.queries = vdf.queries],
     ret |-> "copy", value |-> vdf]

\* vDataFrame.copy(): a new relation with the same state
copy(st) == st

\* the operator form calling abs() on the relation itself
abs_operator_inplace(st, probes) == ReturnsSelf(vDF_abs(st, <<>>, probes))

\* __abs__: self.copy().abs()
abs_operator(st, probes) == ReturnsCopy(st, vDF_abs(copy(st), <<>>, probes))

\* the loop of __ceil__, __floor__ and __round__ over vdf.numcol()
RECURSIVE RoundingLoop(_, _, _, _, _)
RoundingLoop(vdf, cols, func, x, probes) ==
    IF cols = <<>> THEN vdf
    ELSE IF category(vdf, Head(cols)) = "float"
         THEN LET s1 == vDC_apply_fun(vdf, Head(cols), func, x, Head(probes))
              IN  IF s1.raised # "" THEN s1
                  ELSE RoundingLoop(s1, Tail(cols), func, x, Tail(probes))
         ELSE RoundingLoop(vdf, Tail(cols), func, x, Tail(probes))

\* __ceil__, __floor__ (x at its default) and __round__ (x = n)
rounding_operator(st, func, x, probes) ==
    LET vdf == copy(st)
    IN  ReturnsCopy(st, RoundingLoop(vdf, numcol(vdf), func, x, probes))

-----------------------------------------------------------------------------
(* A cached aggregate: the statistics of the column's current chain are    *)
(* written into its catalog object, which other columns may share.         *)

fill_catalog(st, c) ==
    [st EXCEPT !.catalog = [d \in DOMAIN st.catalog |->
                               IF d = c \/ d \in st.catShare[c]
                               THEN st.transf[c] ELSE st.catalog[d]]]

-----------------------------------------------------------------------------
(* The inputs of the explored calls.                                       *)

ApplyTemplates ==
    {AbsTemplate,
     <<"{}", "+", "b">>,
     <<"{}", "+", "\"a\"">>,
     <<"{}", "-", "a_mean_0">>,
     <<"{}", "+", "ab">>}

\* the templates of the dictionaries given to vDataFrame.apply
MappingTemplates == {AbsTemplate, <<"{}", "+", "\"a\"">>}

CopyNames == {"", "n", "b"}

Divisors == {0, 2}

AnalyticFuncs == {"skewness", "kurtosis", "jb", "aad", "mad", "top", "mode", "max"}

AnalyticColumns == {<<>>, <<"\"a\"">>}

AnalyticBy == {<<>>, <<"\"b\"">>}

OrderBys == {<<>>, <<"\"b\"">>}

\* the most statements a branch of analytic makes
MaxSteps == 4

\* the engine's answers to the probes of a call: type ct for each, but for
\* the failAt-th, which fails (failAt = 0: none fails)
Probes(ct, failAt) ==
    [i \in 1..MaxSteps |-> IF i = failAt THEN ProbeFails ELSE ct]

-----------------------------------------------------------------------------
(* The state machine.                                                      *)

InitChain(alias, ct) == <<<<<<alias>>, ct, to_category(ct)>>>>

InitColumns == <<"\"a\"", "\"b\"">>

InitTransf ==
    [c \in Range(InitColumns) |->
        IF c = "\"a\"" THEN InitChain(c, "int") ELSE InitChain(c, "varchar")]

\* a relation just built, on which the aggregates of the columns may have
\* been computed already
Init ==
    /\ columns = InitColumns
    /\ transf = InitTransf
    /\ \E filled \in {{}, Range(InitColumns)} :
          catalog = [c \in Range(InitColumns) |->
                        IF c \in filled THEN InitTransf[c] ELSE <<>>]
    /\ catShare = [c \in Range(InitColumns) |-> {}]
    /\ exclude_columns = <<>>
    /\ history = <<>>
    /\ lastCall = [op |-> "none", args |-> <<>>, raised |-> "", queries |-> 0]
    /\ ncalls = 0
    /\ executed = <<>>

\* one more call may be made
CanCall == ncalls < MaxCalls

\* the relation after the call, and the record of the call
Commit(st, op, args) ==
    /\ columns' = st.columns
    /\ transf' = st.transf
    /\ catalog' = st.catalog
    /\ catShare' = st.catShare
    /\ exclude_columns' = st.exclude_columns
    /\ history' = st.history
    /\ lastCall' = [op |-> op, args |-> args, raised |-> st.raised,
                    queries |-> st.queries]
    /\ ncalls' = ncalls + 1
    /\ executed' = executed

Apply ==
    /\ CanCall
    /\ \E c \in Range(columns), func \in ApplyTemplates, copy_name \in CopyNames,
           probe \in ProbeOutcomes :
            Commit(vDC_apply(Relation, c, func, copy_name, probe), "vDC.apply",
                   [col |-> c, func |-> func, copy_name |-> copy_name, probe |-> probe])

Abs ==
    /\ CanCall
    /\ \E c \in Range(columns), probe \in ProbeOutcomes :
            Commit(vDC_abs(Relation, c, probe), "vDC.abs",
                   [col |-> c, probe |-> probe])

Div ==
    /\ CanCall
    /\ \E c \in Range(columns), x \in Divisors, probe \in ProbeOutcomes :
            Commit(vDC_div(Relation, c, x, probe), "vDC.div",
                   [col |-> c, x |-> x, probe |-> probe])

ApplyMapping ==
    /\ CanCall
    /\ \E c1 \in Range(InitColumns), c2 \in Range(InitColumns),
           f1 \in MappingTemplates, f2 \in MappingTemplates,
           p1 \in ProbeOutcomes, p2 \in ProbeOutcomes :
            /\ c1 # c2
            /\ Commit(vDF_apply(Relation, <<<<c1, f1>>, <<c2, f2>>>>, <<p1, p2>>),
                      "vDF.apply",
                      [mapping |-> <<<<c1, f1>>, <<c2, f2>>>>, probes |-> <<p1, p2>>])

\* the arguments a call of analytic does not read are left at their defaults
AnalyticInputs ==
    {in \in [func : AnalyticFuncs, columns : AnalyticColumns, by : AnalyticBy,
             order_by : OrderBys, name : {"r", "s"}, add_count : BOOLEAN,
             random_nb : 0..MaxRand, print_info : BOOLEAN, failAt : 0..MaxSteps] :
        /\ in.func \notin {"top", "mode"} => in.add_count
        /\ in.func \notin HigherMoment => in.random_nb = 0
        /\ in.columns # <<>> => in.order_by = <<>> /\ ~in.print_info
        /\ in.columns = <<>> => in.failAt = 0 /\ in.by = <<>> /\ in.name = "r"
        /\ in.columns # <<>> =>
              in.failAt <= Len(AnalyticSteps(verticapy_agg_name(in.func), in.columns,
                                             PartitionBy(in.by), in.name,
                                             in.add_count, in.random_nb))}

\* offset and x_smoothing are left at their defaults when the call does not
\* give them
analytic_call(st, in, ct) ==
    analytic(st, in.func, in.columns, in.by, in.order_by, in.name, in.add_count,
             in.random_nb, in.print_info,
             IF "offset" \in DOMAIN in THEN in.offset ELSE DefaultOffset,
             IF "x_smoothing" \in DOMAIN in THEN in.x_smoothing ELSE DefaultSmoothing,
             Probes(ct, in.failAt))

Analytic ==
    /\ CanCall
    /\ \E in \in AnalyticInputs, ct \in Types :
            Commit(analytic_call(Relation, in, ct), "vDF.analytic", in)

FillCatalog ==
    /\ CanCall
    /\ \E c \in Range(columns) :
            Commit(fill_catalog(Relation, c), "aggregate", [col |-> c])

Next ==
    \/ Apply
    \/ Abs
    \/ Div
    \/ ApplyMapping
    \/ Analytic
    \/ FillCatalog

Spec == Init /\ [][Next]_vars

-----------------------------------------------------------------------------
(* The same calls on fewer inputs, so that longer sequences of calls can be  *)
(* explored: the ledger of the chains and the catalogs on one side, the     *)
(* columns analytic creates on the other.                                   *)

\* the result column of the k-th call of a sequence
ResultNameOf(k) == IF k = 1 THEN "r" ELSE IF k = 2 THEN "s" ELSE "t"

LedgerApply ==
    /\ CanCall
    /\ \E c \in Range(columns), func \in MappingTemplates, copy_name \in CopyNames,
           probe \in ProbeOutcomes :
            Commit(vDC_apply(Relation, c, func, copy_name, probe), "vDC.apply",
                   [col |-> c, func |-> func, copy_name |-> copy_name, probe |-> probe])

\* a dictionary of two columns with the same template; the probe of the
\* second column is not made when the first fails
LedgerMapping ==
    /\ CanCall
    /\ \E c1 \in Range(InitColumns), c2 \in Range(InitColumns),
           f \in MappingTemplates, p1 \in ProbeOutcomes, p2 \in ProbeOutcomes :
            /\ c1 # c2
            /\ p1 = ProbeFails => p2 = ProbeFails
            /\ Commit(vDF_apply(Relation, <<<<c1, f>>, <<c2, f>>>>, <<p1, p2>>),
                      "vDF.apply",
                      [mapping |-> <<<<c1, f>>, <<c2, f>>>>, probes |-> <<p1, p2>>])

AnalyticOn(inputs) ==
    /\ CanCall
    /\ \E in \in inputs, ct \in Types :
            Commit(analytic_call(Relation, in, ct), "vDF.analytic", in)

\* the inputs of the k-th call: analytic(func, columns = "a", name = the
\* k-th result name), or analytic(func) with no column
InputsOfCall(funcs, k) ==
    {in \in [func : funcs, columns : AnalyticColumns, by : {<<>>},
             order_by : {<<>>}, name : {ResultNameOf(k)}, add_count : BOOLEAN,
             random_nb : 0..MaxRand, print_info : {FALSE}, failAt : 0..MaxSteps] :
        /\ in.func \notin {"top", "mode"} => in.add_count
        /\ in.func \notin HigherMoment => in.random_nb = 0
        /\ in.columns = <<>> => in.failAt = 0 /\ in.func \in {"skewness", "mode"}
        /\ in.columns # <<>> =>
              in.failAt <= Len(AnalyticSteps(verticapy_agg_name(in.func), in.columns,
                                             PartitionBy(in.by), in.name,
                                             in.add_count, in.random_nb))}

LedgerInputs == [k \in 1..(MaxCalls + 1) |-> InputsOfCall({"aad"}, k)]

LedgerAnalytic == AnalyticOn(LedgerInputs[ncalls + 1])

NextLedger ==
    \/ LedgerApply
    \/ Abs
    \/ Div
    \/ LedgerMapping
    \/ LedgerAnalytic
    \/ FillCatalog

SpecLedger == Init /\ [][NextLedger]_vars

ColumnsInputs ==
    [k \in 1..(MaxCalls + 1) |->
        InputsOfCall(AnalyticFuncs, k)]

ColumnsAnalytic == AnalyticOn(ColumnsInputs[ncalls + 1])

NextColumns ==
    \/ ColumnsAnalytic
    \/ Abs

\* a relation just built, no aggregate computed yet
InitNoStatistics == Init /\ catalog = [c \in Range(InitColumns) |-> <<>>]

SpecColumns == InitNoStatistics /\ [][NextColumns]_vars

-----------------------------------------------------------------------------
(* analytic on the function names of every family, with no column, one     *)
(* column, twice the same column, two columns and three columns.           *)

PercentFuncs == {PercentNames[i][1] : i \in DOMAIN PercentNames}

PairFuncs == {"corr", "cov", "beta"}

DispatchFuncs ==
    OrderIndependent \cup {"mode", "mean", "MAX", "5%x"} \cup PercentFuncs
    \cup Ranking \cup PairFuncs \cup {"ntile", "bit_and"}

DispatchColumns ==
    {<<>>, <<"\"a\"">>, <<"\"a\"", "\"a\"">>, <<"\"a\"", "\"b\"">>,
     <<"\"a\"", "\"b\"", "\"a\"">>}

Offsets == {DefaultOffset, 2}

Smoothings == {DefaultSmoothing, "0.9"}

\* the inputs of the k-th call; the probe of its first query may fail
DispatchInputs ==
    [k \in 1..(MaxDispatchCalls + 1) |->
        {in \in [func : DispatchFuncs, columns : DispatchColumns, by : AnalyticBy,
                 order_by : OrderBys, name : {ResultNameOf(k)}, add_count : {TRUE},
                 random_nb : {0}, print_info : BOOLEAN, failAt : 0..1,
                 offset : Offsets, x_smoothing : Smoothings] :
            /\ in.columns = <<>> => in.failAt = 0 /\ in.by = <<>>
            /\ Len(in.columns) > 1 => in.func \in PairFuncs
            /\ in.func \notin {"lead", "lag"} => in.offset = DefaultOffset
            /\ in.func # "exponential_moving_average"
                  => in.x_smoothing = DefaultSmoothing}]

DispatchAnalytic ==
    /\ ncalls < MaxDispatchCalls
    /\ AnalyticOn(DispatchInputs[ncalls + 1])

NextDispatch == DispatchAnalytic

SpecDispatch == InitNoStatistics /\ [][NextDispatch]_vars

-----------------------------------------------------------------------------
(* apply_fun on columns of every category.                                 *)

ApplyFunNames ==
    {"abs", "len", "length", "mean", "max", "dim", "log", "mod", "contain", "find"}

ColumnTypes == {"varchar", "vmap", "array"}

\* a relation just built, whose column b is a text, a map or an array
InitTyped ==
    /\ columns = InitColumns
    /\ \E t \in ColumnTypes :
          transf = [c \in Range(InitColumns) |->
                       IF c = "\"a\"" THEN InitChain(c, "int") ELSE InitChain(c, t)]
    /\ catalog = [c \in Range(InitColumns) |-> <<>>]
    /\ catShare = [c \in Range(InitColumns) |-> {}]
    /\ exclude_columns = <<>>
    /\ history = <<>>
    /\ lastCall = [op |-> "none", args |-> <<>>, raised |-> "", queries |-> 0]
    /\ ncalls = 0
    /\ executed = <<>>

\* x is left at its default but for contain and find
ApplyFun ==
    /\ CanCall
    /\ \E c \in Range(columns), func \in ApplyFunNames, x \in XValues,
           probe \in ProbeOutcomes :
            /\ func \notin {"contain", "find"} => ~x.isstr
            /\ Commit(vDC_apply_fun(Relation, c, func, x, probe), "vDC.apply_fun",
                      [col |-> c, func |-> func, x |-> x, probe |-> probe])

NextApplyFun == ApplyFun

SpecApplyFun == InitTyped /\ [][NextApplyFun]_vars

-----------------------------------------------------------------------------
(* Vocabulary of the properties.                                           *)

IsPrefix(s, t) == Len(s) <= Len(t) /\ SubSeq(t, 1, Len(s)) = s

RelationUnchanged ==
    UNCHANGED <<columns, transf, catalog, catShare, exclude_columns, history>>

\* the step is a call of vDataColumn.apply
ApplyCalled == lastCall'.op = "vDC.apply"
ApplySucceeded == ApplyCalled /\ lastCall'.raised = ""
InPlace == lastCall'.args.copy_name = ""

\* the floor as the specification words it: the greatest chain length among
\* the columns of the relation that func refers to
ReferencedBy(func) == {d \in Range(columns) : IsReferenced(d, func)}
SpecFloor(func) ==
    IF ReferencedBy(func) = {} THEN 0
    ELSE CHOOSE n \in {Len(transf[d]) : d \in ReferencedBy(func)} :
            \A d \in ReferencedBy(func) : Len(transf[d]) <= n

\* the same, among the visible columns only
VisibleFloor(func) ==
    LET ref == ReferencedBy(func) \cap Range(get_columns(Relation))
    IN  IF ref = {} THEN 0
        ELSE CHOOSE n \in {Len(transf[d]) : d \in ref} :
                \A d \in ref : Len(transf[d]) <= n

IdentitySteps(n, ct) == [k \in 1..n |-> <<<<"{}">>, ct, to_category(ct)>>]

-----------------------------------------------------------------------------
\* C1: when the type probe of vDataColumn.apply(func, copy_name) fails, the
\* call raises QueryError and the relation is as before the call: no chain
\* changed, no padding step, no copy column, no catalog erased, no history
\* entry.
C1_FailedProbeChangesNothing ==
    [][(ApplyCalled /\ lastCall'.args.probe = ProbeFails)
         => /\ lastCall'.raised = "QueryError"
            /\ RelationUnchanged]_vars

\* a failed probe of a copying apply whose template needed padding, on a
\* column with cached statistics
C1_Witness ==
    /\ lastCall.op = "vDC.apply"
    /\ lastCall.args.probe = ProbeFails
    /\ lastCall.raised = "QueryError"
    /\ lastCall.args.copy_name = "n"
    /\ MaxFloor(Relation, lastCall.args.col, lastCall.args.func) > 0
    /\ catalog[lastCall.args.col] # <<>>

-----------------------------------------------------------------------------
-----------------------------------------------------------------------------
\* C3: over any sequence of calls, successful or not, every chain has at
\* least one step and the chain a column had before a call is a prefix of
\* the chain it has after it.
C3_ChainsOnlyGrow ==
    [][/\ \A c \in DOMAIN transf :
             /\ c \in DOMAIN transf'
             /\ IsPrefix(transf[c], transf'[c])
       /\ \A c \in DOMAIN transf' : Len(transf'[c]) >= 1]_vars

\* a chain that grew by a padding step and a new step
C3_Witness ==
    \E c \in Range(InitColumns) :
        /\ Len(transf[c]) = 3
        /\ transf[c][2][1] = <<"{}">>
        /\ IsPrefix(InitTransf[c], transf[c])

-----------------------------------------------------------------------------
-----------------------------------------------------------------------------
\* C5: after a successful in-place apply the catalog of the column is
\* erased and the catalogs of the other columns are as before.
C5_OnlyOwnCatalogErased ==
    [][(ApplySucceeded /\ InPlace)
         => LET c == lastCall'.args.col
            IN  /\ catalog'[c] = <<>>
                /\ \A d \in DOMAIN catalog : d # c => catalog'[d] = catalog[d]]_vars

\* an in-place apply on a column, while another column keeps its statistics
\* in a catalog object that it shared with that column
C5_Witness ==
    /\ lastCall.op = "vDC.apply"
    /\ lastCall.raised = ""
    /\ lastCall.args.copy_name = ""
    /\ catalog[lastCall.args.col] = <<>>
    /\ \E d \in DOMAIN catalog :
          /\ d # lastCall.args.col
          /\ catalog[d] # <<>>
          /\ transf[d] # InitTransf["\"b\""]
          /\ IsPrefix(catalog[d], transf[lastCall.args.col])

-----------------------------------------------------------------------------
\* C6: no column holds statistics computed for a chain other than its
\* current chain.
C6_NoStaleCatalog ==
    \A c \in DOMAIN catalog : catalog[c] # <<>> => catalog[c] = transf[c]

-----------------------------------------------------------------------------
\* the step is a call of analytic with a function of the higher-moment set
AnalyticCalled == lastCall'.op = "vDF.analytic"
HigherMomentCalled ==
    AnalyticCalled /\ verticapy_agg_name(lastCall'.args.func) \in HigherMoment

\* the columns the call created
CreatedByCall == Range(columns') \ Range(columns)

\* C7: after a successful analytic call of the higher-moment set every
\* scratch alias the call created is in exclude_columns, and in every state
\* every member of exclude_columns is a column of the relation.
C7_ExcludeSetClosure ==
    /\ [](Range(exclude_columns) \subseteq Range(columns))
    /\ [][(HigherMomentCalled /\ lastCall'.raised = "")
            => LET scratch == CreatedByCall \ {quote_ident(lastCall'.args.name)}
               IN  /\ scratch # {}
                   /\ scratch \subseteq Range(exclude_columns')]_vars

\* two successful higher-moment calls, the scratch columns of both excluded
C7_Witness ==
    /\ lastCall.op = "vDF.analytic"
    /\ lastCall.args.func \in {"skewness", "kurtosis", "jb"}
    /\ lastCall.raised = ""
    /\ Len(exclude_columns) >= 4
    /\ ncalls = 2

-----------------------------------------------------------------------------
\* C8: after a successful analytic call with func top or mode and
\* add_count, the column <name>_count is a member of exclude_columns.
C8_TopCountExcluded ==
    (/\ lastCall.op = "vDF.analytic"
     /\ verticapy_agg_name(lastCall.args.func) = "top"
     /\ lastCall.args.add_count
     /\ lastCall.raised = "")
        => quote_ident(lastCall.args.name \o "_count") \in Range(exclude_columns)

\* C8, as the code has it: after a successful analytic call with func top or
\* mode and add_count, the column <name>_count is a new column of the
\* relation, it is not a member of exclude_columns, and the call appends
\* nothing to exclude_columns.
C8_TopCountVisible ==
    [][(/\ AnalyticCalled
        /\ verticapy_agg_name(lastCall'.args.func) = "top"
        /\ lastCall'.args.add_count
        /\ lastCall'.raised = "")
         => LET count == quote_ident(lastCall'.args.name \o "_count")
            IN  /\ count \notin Range(columns)
                /\ count \in Range(columns')
                /\ count \notin Range(exclude_columns')
                /\ exclude_columns' = exclude_columns]_vars

\* a mode call with add_count made after a higher-moment call: the scratch
\* columns of the first are excluded, the count column of the second is not
C8_Witness ==
    /\ lastCall.op = "vDF.analytic"
    /\ lastCall.args.func = "mode"
    /\ lastCall.args.add_count
    /\ lastCall.raised = ""
    /\ quote_ident(lastCall.args.name \o "_count") \in Range(get_columns(Relation))
    /\ exclude_columns # <<>>

-----------------------------------------------------------------------------
\* C9: when vDataFrame.apply(mapping) fails on the probe of one column, no
\* column of the relation, those before the failing one included, has
\* another chain, catalog or history than before the call.
C9_MappingAllOrNothing ==
    [][(lastCall'.op = "vDF.apply" /\ lastCall'.raised # "")
         => RelationUnchanged]_vars

-----------------------------------------------------------------------------
\* C10: when a step of a higher-moment analytic call fails after scratch
\* columns of the call were created, the call fails and those scratch
\* columns stay: they are columns of the relation and not members of
\* exclude_columns.
C10_ScratchNotRolledBack ==
    [][(HigherMomentCalled /\ lastCall'.args.columns # <<>>)
         => LET in == lastCall'.args
                steps == AnalyticSteps(verticapy_agg_name(in.func), in.columns,
                                       PartitionBy(in.by), in.name, in.add_count,
                                       in.random_nb)
                alias(i) == quote_ident(steps[i].name)
                \* the first step that fails: its alias exists already, or
                \* its probe fails
                fails(i) == alias(i) \in Range(columns) \/ i = in.failAt
                before(i) == \A j \in 1..(i - 1) : ~fails(j)
            IN  \A i \in 2..Len(steps) :
                    (fails(i) /\ before(i))
                        => /\ lastCall'.raised # ""
                           /\ \A j \in 1..(i - 1) :
                                 /\ alias(j) \in Range(columns')
                                 /\ alias(j) \notin Range(exclude_columns')]_vars

\* a skewness call that failed on its third column, the mean and the
\* standard deviation columns created and visible
C10_Witness ==
    /\ lastCall.op = "vDF.analytic"
    /\ lastCall.args.func = "skewness"
    /\ lastCall.args.failAt = 3
    /\ lastCall.raised = "QueryError"
    /\ {"\"a_mean_1\"", "\"a_std_1\""} \subseteq Range(columns)
    /\ "\"a_count_1\"" \notin Range(columns)
    /\ "\"a_mean_1\"" \notin Range(exclude_columns)

-----------------------------------------------------------------------------
(* The chain lengths of C2 and C4 with the floor that vDataColumn.apply     *)
(* computes, among the visible columns: these hold.                        *)

ChainLengthFromVisibleColumns ==
    [][(ApplySucceeded /\ InPlace)
         => LET c == lastCall'.args.col
                func == lastCall'.args.func
            IN  /\ Len(transf'[c]) = Max2(Len(transf[c]), VisibleFloor(func)) + 1
                /\ VisibleFloor(func) <= Len(transf[c])
                     => transf'[c] = Append(transf[c], transf'[c][Len(transf'[c])])]_vars

CopyOfSourceVisibleFloor ==
    [][(ApplySucceeded /\ ~InPlace)
         => LET c == lastCall'.args.col
                func == lastCall'.args.func
                n == quote_ident(lastCall'.args.copy_name)
                ct == lastCall'.args.probe
            IN  /\ transf'[c] = transf[c]
                /\ catalog'[c] = catalog[c]
                /\ n \notin Range(columns)
                /\ n \in Range(columns')
                /\ transf'[n] =
                     transf[c]
                     \o IdentitySteps(Max2(0, VisibleFloor(func) - Len(transf[c])),
                                      ctype(Relation, c))
                     \o <<<<func, ct, to_category(ct)>>>>
                /\ catalog'[n] = catalog[c]]_vars

-----------------------------------------------------------------------------
(* Vocabulary of the claims on the dispatch of analytic.                   *)

\* the name analytic dispatches on
Dispatched(func) == verticapy_agg_name(Lower(func))

\* the order-independent family of the claims
InFamily(func) ==
    Dispatched(func) \in OrderIndependent \/ ContainsPercent(Dispatched(func))

\* the call raised before any query and added no column
RejectedBeforeQuery(errors) ==
    /\ lastCall'.raised \in errors
    /\ lastCall'.queries = 0
    /\ columns' = columns
    /\ transf' = transf

\* the template of the last step of column c after the call
LastTemplate(c) == transf'[c][Len(transf'[c])][1]

-----------------------------------------------------------------------------
\* C11: analytic with a function of the order-independent family and no
\* input column raises MissingColumn before any query and adds no column,
\* whatever order_by and the print_info option are.
C11_NoColumnIsMissingColumn ==
    [][(AnalyticCalled /\ InFamily(lastCall'.args.func)
                       /\ lastCall'.args.columns = <<>>)
         => RejectedBeforeQuery({"MissingColumn"})]_vars

-----------------------------------------------------------------------------
\* C12: analytic with a function of the ranking and offset family called
\* without order_by is rejected with a validation error before any query,
\* and no column is added.
C12_RankingNeedsOrderBy ==
    [][(AnalyticCalled /\ Dispatched(lastCall'.args.func) \in Ranking
                       /\ lastCall'.args.order_by = <<>>)
         => RejectedBeforeQuery({"ValueError", "MissingColumn"})]_vars

-----------------------------------------------------------------------------
\* C13: for a function name of no family analytic issues the generic query
\* and, when the engine accepts it, adds the new column; it raises
\* ValueError only when that query fails.
C13_UnknownNameFallsThrough ==
    [][(/\ AnalyticCalled
        /\ ~InFamily(lastCall'.args.func)
        /\ Dispatched(lastCall'.args.func) \notin Ranking \cup PairFuncs
        /\ Len(lastCall'.args.columns) = 1
        /\ quote_ident(lastCall'.args.name) \notin Range(columns))
         => /\ lastCall'.queries = 1
            /\ lastCall'.args.failAt = 0
                 => /\ lastCall'.raised = ""
                    /\ quote_ident(lastCall'.args.name) \in Range(columns')
            /\ lastCall'.raised = "ValueError" => lastCall'.args.failAt = 1]_vars

-----------------------------------------------------------------------------
\* the call is a percentile "x%" given an input column
PercentileCalled ==
    /\ AnalyticCalled
    /\ EndsWithPercent(Dispatched(lastCall'.args.func))
    /\ lastCall'.args.columns # <<>>

\* C14: analytic with a func "<prefix>%" whose prefix is not a number,
\* called with an input column, raises ValueError before any query and
\* leaves the relation as it was.
C14_MalformedPercentile ==
    [][(PercentileCalled
        /\ ~IsFloat(PercentPrefix(Dispatched(lastCall'.args.func))))
         => /\ lastCall'.raised = "ValueError"
            /\ lastCall'.queries = 0
            /\ RelationUnchanged]_vars

\* 'fifty%' on column a with a partition and an order_by, rejected
C14_Witness ==
    /\ lastCall.op = "vDF.analytic"
    /\ lastCall.args.func = "fifty%"
    /\ lastCall.args.columns = <<"\"a\"">>
    /\ lastCall.args.by # <<>>
    /\ lastCall.args.order_by # <<>>
    /\ lastCall.raised = "ValueError"
    /\ lastCall.queries = 0
    /\ columns = InitColumns

-----------------------------------------------------------------------------
\* the fraction of a percentile, in hundredths, from its text in the query
FractionTexts ==
    <<<<"0.5", 50>>, <<"1.0", 100>>, <<"0.0", 0>>, <<"1.5", 150>>,
      <<"-0.05", 0 - 5>>>>

HundredthsOf(text) ==
    FractionTexts[CHOOSE i \in DOMAIN FractionTexts : FractionTexts[i][1] = text][2]

\* C15: for every func "<number>%" that analytic accepts, the fraction
\* compiled into PERCENTILE_CONT is number / 100 and lies in (0, 1]; a
\* number <= 0 or > 100 never reaches the engine.
C15_PercentileFractionInRange ==
    [][(PercentileCalled
        /\ IsFloat(PercentPrefix(Dispatched(lastCall'.args.func))))
         => LET number == float(PercentPrefix(Dispatched(lastCall'.args.func)))
                alias == quote_ident(lastCall'.args.name)
            IN  /\ lastCall'.queries > 0 => number > 0 /\ number <= 100
                /\ (lastCall'.raised = "" /\ alias \notin Range(columns))
                     => /\ LastTemplate(alias)[1] = "PERCENTILE_CONT("
                        /\ HundredthsOf(LastTemplate(alias)[2]) = number
                        /\ HundredthsOf(LastTemplate(alias)[2]) \in 1..100]_vars

-----------------------------------------------------------------------------
\* AVG(a*b) - AVG(a)*AVG(b) over the partition
ProductMoment(a, b, by) ==
    <<"(AVG(", a, "*", b, ") OVER (">> \o by \o <<") - AVG(", a, ") OVER (">>
    \o by \o <<") * AVG(", b, ") OVER (">> \o by \o <<"))">>

\* C16: corr of a column with itself defines the new column by the literal
\* 1, cov of a column with itself by VARIANCE(c) OVER (partition); for two
\* different columns cov is AVG(a*b) - AVG(a)*AVG(b) over the partition,
\* corr divides it by STDDEV(a)*STDDEV(b) and beta by VARIANCE(b).
C16_PairwiseExpressions ==
    [][(/\ AnalyticCalled
        /\ Dispatched(lastCall'.args.func) \in PairFuncs
        /\ Len(lastCall'.args.columns) = 2
        /\ lastCall'.raised = "")
         => LET func == Dispatched(lastCall'.args.func)
                a == lastCall'.args.columns[1]
                b == lastCall'.args.columns[2]
                by == PartitionBy(lastCall'.args.by)
                alias == quote_ident(lastCall'.args.name)
                expr == LastTemplate(alias)
            IN  /\ alias \notin Range(columns)
                /\ alias \in Range(columns')
                /\ (a = b /\ func = "corr") => expr = <<"1">>
                /\ (a = b /\ func = "cov")
                     => expr = <<"VARIANCE(", a, ") OVER (">> \o by \o <<")">>
                /\ (a # b /\ func = "cov") => expr = ProductMoment(a, b, by)
                /\ (a # b /\ func = "corr")
                     => expr = ProductMoment(a, b, by)
                               \o <<"/ (STDDEV(", a, ") OVER (">> \o by
                               \o <<") * STDDEV(", b, ") OVER (">> \o by \o <<"))">>
                /\ (a # b /\ func = "beta")
                     => expr = ProductMoment(a, b, by)
                               \o <<"/ (VARIANCE(", b, ") OVER (">> \o by \o <<"))">>]_vars

\* beta of two different columns over a partition, the column created
C16_Witness ==
    /\ lastCall.op = "vDF.analytic"
    /\ lastCall.args.func = "beta"
    /\ lastCall.args.columns = <<"\"a\"", "\"b\"">>
    /\ lastCall.args.by # <<>>
    /\ lastCall.raised = ""
    /\ quote_ident(lastCall.args.name) \in Range(columns)

-----------------------------------------------------------------------------
\* C17: analytic with corr, cov or beta and a number of input columns other
\* than two is rejected with MissingColumn before any query, and no column
\* is added.
C17_PairNeedsTwoColumns ==
    [][(/\ AnalyticCalled
        /\ Dispatched(lastCall'.args.func) \in PairFuncs
        /\ Len(lastCall'.args.columns) # 2)
         => RejectedBeforeQuery({"MissingColumn"})]_vars

-----------------------------------------------------------------------------
\* C18: div(0) fails with ValueError before any query and leaves the
\* relation as it was; div(x) with x # 0 appends the single step "{} / (x)".
C18_DivisionByZero ==
    [][(lastCall'.op = "vDC.div")
         => LET c == lastCall'.args.col
                x == lastCall'.args.x
            IN  /\ x = 0 => /\ lastCall'.raised = "ValueError"
                            /\ lastCall'.queries = 0
                            /\ RelationUnchanged
                /\ (x # 0 /\ lastCall'.raised = "")
                     => transf'[c] = Append(transf[c],
                                            <<<<"{}", "/ (", ToString(x), ")">>,
                                              lastCall'.args.probe,
                                              to_category(lastCall'.args.probe)>>)]_vars

-----------------------------------------------------------------------------
\* the same call of analytic with no order_by, made on the relation as it
\* is before the call
WithoutOrderBy ==
    analytic_call(Relation, [lastCall'.args EXCEPT !.order_by = <<>>],
                  CHOOSE ct \in Types : TRUE)

\* C19: an order_by given to an order-independent aggregate changes
\* nothing: when the call without it succeeds, the call with it succeeds
\* and the columns it creates have the same expressions.
C19_OrderByIsNoOp ==
    [][(/\ AnalyticCalled
        /\ InFamily(lastCall'.args.func)
             \/ Dispatched(lastCall'.args.func) \in PairFuncs
        /\ lastCall'.args.order_by # <<>>
        /\ WithoutOrderBy.raised = "")
         => /\ lastCall'.raised = ""
            /\ columns' = WithoutOrderBy.columns
            /\ transf' = WithoutOrderBy.transf
            /\ exclude_columns' = WithoutOrderBy.exclude_columns]_vars

\* prod over a partition with an order_by, the column created
C19_Witness ==
    /\ lastCall.op = "vDF.analytic"
    /\ lastCall.args.func = "prod"
    /\ lastCall.args.order_by # <<>>
    /\ lastCall.args.by # <<>>
    /\ lastCall.raised = ""
    /\ quote_ident(lastCall.args.name) \in Range(columns)

-----------------------------------------------------------------------------
\* C20: apply_fun('length') and apply_fun('len') compile to MAPSIZE({}) on
\* a column of category vmap, APPLY_COUNT_ELEMENTS({}) on a complex one and
\* LENGTH({}) on every other.
C20_LengthTemplate ==
    [][(/\ lastCall'.op = "vDC.apply_fun"
        /\ lastCall'.args.func \in {"len", "length"}
        /\ lastCall'.raised = "")
         => LET c == lastCall'.args.col
                cat == category(Relation, c)
            IN  LastTemplate(c) =
                    <<(CASE cat = "vmap" -> "MAPSIZE("
                         [] cat = "complex" -> "APPLY_COUNT_ELEMENTS("
                         [] OTHER -> "LENGTH("),
                      "{}", ")">>]_vars

-----------------------------------------------------------------------------
\* the string a SQL literal denotes: the characters between the outer
\* quotes, each pair of quotes read as one quote; <<"?">> is returned for a
\* text that is not one literal (a quote alone ends the literal early)
RECURSIVE Unescape(_)
Unescape(inner) ==
    IF inner = <<>> THEN <<>>
    ELSE IF Head(inner) # "'" THEN <<Head(inner)>> \o Unescape(Tail(inner))
    ELSE IF Len(inner) >= 2 /\ inner[2] = "'"
         THEN <<"'">> \o Unescape(Tail(Tail(inner)))
         ELSE <<"?", "?">>

\* the literal of the claim: the string between single quotes, every quote
\* of the string written twice
RECURSIVE Doubled(_)
Doubled(chars) ==
    IF chars = <<>> THEN <<>>
    ELSE IF Head(chars) = "'" THEN <<"'", "'">> \o Doubled(Tail(chars))
    ELSE <<Head(chars)>> \o Doubled(Tail(chars))

Literal(chars) == <<"'">> \o Doubled(chars) \o <<"'">>

\* C21: apply_fun('contain' | 'find', x) with a string x emits x as one SQL
\* string literal, between single quotes with every quote of x doubled, and
\* a non-string x unquoted; the function is MAPCONTAINSVALUE for contain on
\* a vmap column, CONTAINS for contain otherwise, ARRAY_FIND for find.
C21_SecondArgumentQuoted ==
    [][(/\ lastCall'.op = "vDC.apply_fun"
        /\ lastCall'.args.func \in {"contain", "find"}
        /\ lastCall'.raised = "")
         => LET c == lastCall'.args.col
                x == lastCall'.args.x
                f == IF lastCall'.args.func = "find" THEN "ARRAY_FIND("
                     ELSE IF category(Relation, c) = "vmap" THEN "MAPCONTAINSVALUE("
                     ELSE "CONTAINS("
                t == LastTemplate(c)
            IN  /\ Len(t) = 5
                /\ <<t[1], t[2], t[3], t[5]>> = <<f, "{}", ",", ")">>
                /\ x.isstr => /\ t[4] = Join(Literal(x.chars))
                              /\ Unescape(Doubled(x.chars)) = x.chars
                /\ ~x.isstr => t[4] = Join(x.chars)]_vars

\* contain on a vmap column with a string that holds a quote
C21_Witness ==
    /\ lastCall.op = "vDC.apply_fun"
    /\ lastCall.args.func = "contain"
    /\ lastCall.args.x.chars = <<"i", "t", "'", "s">>
    /\ lastCall.raised = ""
    /\ transf[lastCall.args.col][1][3] = "vmap"
    /\ transf[lastCall.args.col][Len(transf[lastCall.args.col])][1][1]
          = "MAPCONTAINSVALUE("

-----------------------------------------------------------------------------
(* analytic(func = "prod") and the value the engine computes for the new   *)
(* column on a partition of non-zero integers.                             *)

RowValues == {-2, -1, 3}

Partitions == UNION {[1..n -> RowValues] : n \in 1..MaxRows}

\* SUM(CASE WHEN x < 0 THEN 1 ELSE 0 END) OVER (partition)
RECURSIVE NegativeCount(_)
NegativeCount(rows) ==
    IF rows = <<>> THEN 0
    ELSE (IF Head(rows) < 0 THEN 1 ELSE 0) + NegativeCount(Tail(rows))

\* MOD(n, m): the remainder, with the sign of n
SqlMod(n, m) == IF n >= 0 THEN n % m ELSE 0 - ((0 - n) % m)

SqlAbs(x) == IF x < 0 THEN 0 - x ELSE x

\* DECODE(v, search, result, default)
Decode(v, search, result, default) == IF v = search THEN result ELSE default

\* the first factor without the count of the negative values
SignFactor_positive(rows) == Decode(0, 0, 1, -1)

\* lines 541-544: DECODE(ABS(MOD(SUM(CASE ...) OVER (by), 2)), 0, 1, -1)
SignFactor(rows) == Decode(SqlAbs(SqlMod(NegativeCount(rows), 2)), 0, 1, -1)

\* lines 545-546: POWER(10, SUM(LOG(ABS(x))) OVER (by)), the real number
\* ten to the sum of the decimal logarithms of the |x|, defined as no x is 0
RECURSIVE Magnitude(_)
Magnitude(rows) ==
    IF rows = <<>> THEN 1 ELSE SqlAbs(Head(rows)) * Magnitude(Tail(rows))

prod_value(rows) == SignFactor(rows) * Magnitude(rows)

ProductInputs ==
    [k \in 1..(MaxDispatchCalls + 1) |->
        [func : {"prod"}, columns : {<<"\"a\"">>}, by : AnalyticBy,
         order_by : {<<>>}, name : {ResultNameOf(k)}, add_count : {TRUE},
         random_nb : {0}, print_info : {FALSE}, failAt : 0..1]]

\* the relation after the call, and the record of the call with the rows of
\* a partition and the value of the new column on them
CommitValue(st, op, args) ==
    /\ columns' = st.columns
    /\ transf' = st.transf
    /\ catalog' = st.catalog
    /\ catShare' = st.catShare
    /\ exclude_columns' = st.exclude_columns
    /\ history' = st.history
    /\ \E rows \in Partitions :
          lastCall' = [op |-> op, args |-> args, raised |-> st.raised,
                       queries |-> st.queries, rows |-> rows,
                       value |-> IF st.raised = "" THEN prod_value(rows) ELSE 0]
    /\ ncalls' = ncalls + 1
    /\ executed' = executed

\* analytic(func = "prod", ...) and, when it succeeded, the value of the new
\* column on the rows of a partition
Product ==
    /\ ncalls < MaxDispatchCalls
    /\ \E in \in ProductInputs[ncalls + 1], ct \in Types :
          CommitValue(analytic_call(Relation, in, ct), "vDF.analytic", in)

NextProduct == Product

SpecProduct == InitNoStatistics /\ [][NextProduct]_vars

-----------------------------------------------------------------------------
(* read_shp(path, schema, table_name) of core/parsers/shp.py.  A string is *)
(* the sequence of its characters; a statement given to _executeSQL is a   *)
(* record of its kind and of the names it holds.                           *)

\* path.split("/")[-1]: what follows the last "/"
RECURSIVE LastSegment(_, _)
LastSegment(chars, current) ==
    IF chars = <<>> THEN current
    ELSE IF Head(chars) = "/" THEN LastSegment(Tail(chars), <<>>)
    ELSE LastSegment(Tail(chars), Append(current, Head(chars)))

\* file[-3 : len(file)]
Suffix3(file) ==
    IF Len(file) <= 3 THEN file ELSE SubSeq(file, Len(file) - 2, Len(file))

\* file[:-4]
DropLast4(file) ==
    IF Len(file) <= 4 THEN <<>> ELSE SubSeq(file, 1, Len(file) - 4)

\* conf.get_option("temp_schema")
TempSchema == <<"v", "_", "t">>

DefinitionQuery(path) == [kind |-> "STV_ShpCreateTable", file |-> Join(path)]

\* the first row of the definition replaced, the other rows kept
CreateTable(schema, table_name, rows) ==
    [kind |-> "CREATE TABLE", schema |-> "\"" \o Join(schema) \o "\"",
     table |-> "\"" \o Join(table_name) \o "\"", rows |-> rows - 1]

CopyStatement(schema, table_name, path) ==
    [kind |-> "COPY", schema |-> "\"" \o Join(schema) \o "\"",
     table |-> "\"" \o Join(table_name) \o "\"", file |-> Join(path)]

\* the extension compared with the whole name of the file
ExtensionIsShp_wholeName(file) == file = <<"s", "h", "p">>

\* lines 101-103
ExtensionIsShp(file) == Suffix3(file) = <<"s", "h", "p">>

\* lines 99-129.  rows is the number of rows the definition query returns,
\* failAt the statement the engine refuses (0: none); the result is the
\* exception raised and the statements given to _executeSQL
read_shp(path, schema0, table_name0, rows, failAt) ==
    LET schema == IF schema0 = <<>> THEN TempSchema ELSE schema0
        file == LastSegment(path, <<>>)
        table_name == IF table_name0 = <<>> THEN DropLast4(file) ELSE table_name0
        s1 == <<DefinitionQuery(path)>>
        s2 == Append(s1, CreateTable(schema, table_name, rows))
        s3 == Append(s2, CopyStatement(schema, table_name, path))
    IN  IF ~ExtensionIsShp(file)
        THEN [raised |-> "ExtensionError", issued |-> <<>>]
        ELSE IF failAt = 1 THEN [raised |-> "QueryError", issued |-> s1]
        ELSE IF rows = 0 THEN [raised |-> "IndexError", issued |-> s1]
        ELSE IF failAt = 2 THEN [raised |-> "QueryError", issued |-> s2]
        ELSE IF failAt = 3 THEN [raised |-> "QueryError", issued |-> s3]
        ELSE [raised |-> "", issued |-> s3]

Paths ==
    {<<"d", "/", "c", ".", "s", "h", "p">>, <<"c", ".", "s", "h", "p">>,
     <<"d", "/", "c", ".", "s", "h", "x">>, <<"c", ".", "S", "H", "P">>,
     <<"a", ".", "s", "h", "p", "/", "c", ".", "d", "b", "f">>,
     <<"s", "h", "p">>, <<"d", "/", "x", "s", "h", "p">>, <<"d", "/">>,
     <<"h", "p">>}

SchemaNames == {<<>>, <<"s">>}

TableNames == {<<>>, <<"t">>}

ReadShp ==
    /\ ncalls < MaxReads
    /\ \E path \in Paths, schema \in SchemaNames, table_name \in TableNames,
          rows \in {0, 2}, failAt \in 0..3 :
          LET res == read_shp(path, schema, table_name, rows, failAt)
          IN  /\ rows = 0 => failAt <= 1
              /\ executed' = executed \o res.issued
              /\ lastCall' = [op |-> "read_shp",
                              args |-> [path |-> path, schema |-> schema,
                                        table_name |-> table_name, rows |-> rows,
                                        failAt |-> failAt],
                              raised |-> res.raised, queries |-> Len(res.issued)]
              /\ ncalls' = ncalls + 1
              /\ UNCHANGED <<columns, transf, catalog, catShare, exclude_columns,
                             history>>

NextReadShp == ReadShp

SpecReadShp == InitNoStatistics /\ [][NextReadShp]_vars

-----------------------------------------------------------------------------
(* The calls made on the whole relation, on columns of every type.         *)

FrameTypes == <<{"int", "float", "boolean"}, {"varchar", "boolean", "float"}>>

\* a relation just built, with the types of its two columns
InitFrame ==
    /\ columns = InitColumns
    /\ \E ta \in FrameTypes[1], tb \in FrameTypes[2] :
          transf = [c \in Range(InitColumns) |->
                       IF c = "\"a\"" THEN InitChain(c, ta) ELSE InitChain(c, tb)]
    /\ catalog = [c \in Range(InitColumns) |-> <<>>]
    /\ catShare = [c \in Range(InitColumns) |-> {}]
    /\ exclude_columns = <<>>
    /\ history = <<>>
    /\ lastCall = [op |-> "none", args |-> <<>>, raised |-> "", queries |-> 0,
                   ret |-> "self", value |-> Relation]
    /\ ncalls = 0
    /\ executed = <<>>

MapTemplates == {<<"COALESCE(", "{}", ", 0)">>, <<"{}", "*", "{}">>}

\* the relation after the call, and the record of the call with what it
\* returned
CommitReturn(res, op, args) ==
    /\ columns' = res.self.columns
    /\ transf' = res.self.transf
    /\ catalog' = res.self.catalog
    /\ catShare' = res.self.catShare
    /\ exclude_columns' = res.self.exclude_columns
    /\ history' = res.self.history
    /\ lastCall' = [op |-> op, args |-> args, raised |-> res.self.raised,
                    queries |-> res.self.queries, ret |-> res.ret,
                    value |-> res.value]
    /\ ncalls' = ncalls + 1
    /\ executed' = executed

ApplyMap ==
    /\ CanCall
    /\ \E func \in MapTemplates, numeric_only \in BOOLEAN, failAt \in 0..2,
           ct \in Types :
            CommitReturn(ReturnsSelf(vDF_applymap(Relation, func, numeric_only,
                                                  Probes(ct, failAt))),
                         "vDF.applymap",
                         [func |-> func, numeric_only |-> numeric_only,
                          failAt |-> failAt, ct |-> ct])

FrameAbsColumns == {<<>>, <<"\"b\"">>}

FrameAbs ==
    /\ CanCall
    /\ \E cols \in FrameAbsColumns, failAt \in 0..2, ct \in Types :
            CommitReturn(ReturnsSelf(vDF_abs(Relation, cols, Probes(ct, failAt))),
                         "vDF.abs", [cols |-> cols, failAt |-> failAt, ct |-> ct])

ColumnAbs ==
    /\ CanCall
    /\ \E c \in Range(columns), probe \in ProbeOutcomes :
            CommitReturn(ReturnsSelf(vDC_abs(Relation, c, probe)), "vDC.abs",
                         [col |-> c, probe |-> probe])

FrameApply ==
    /\ CanCall
    /\ \E c \in Range(columns), func \in MapTemplates, failAt \in 0..1,
           ct \in Types :
            CommitReturn(ReturnsSelf(vDF_apply(Relation, <<<<c, func>>>>,
                                               Probes(ct, failAt))),
                         "vDF.apply",
                         [mapping |-> <<<<c, func>>>>, failAt |-> failAt, ct |-> ct])

AbsOperator ==
    /\ CanCall
    /\ \E failAt \in 0..2, ct \in Types :
            CommitReturn(abs_operator(Relation, Probes(ct, failAt)), "__abs__",
                         [failAt |-> failAt, ct |-> ct])

RoundingNames == {"ceil", "floor", "round"}

RoundingOperator ==
    /\ CanCall
    /\ \E func \in RoundingNames, failAt \in 0..2, ct \in Types :
            CommitReturn(rounding_operator(Relation, func,
                                           [isstr |-> FALSE, chars |-> <<"2">>],
                                           Probes(ct, failAt)),
                         "__" \o func \o "__",
                         [failAt |-> failAt, ct |-> ct])

NextFrame ==
    \/ ApplyMap
    \/ FrameAbs
    \/ ColumnAbs
    \/ FrameApply
    \/ AbsOperator
    \/ RoundingOperator

SpecFrame == InitFrame /\ [][NextFrame]_vars

-----------------------------------------------------------------------------
\* the template with every placeholder followed by the integer cast
WithIntCast(func) ==
    [i \in 1..(Len(func) + Cardinality({j \in DOMAIN func : func[j] = "{}"})) |->
        LET \* the token of func that position i of the result comes from
            src == CHOOSE j \in DOMAIN func :
                       LET before == Cardinality({k \in 1..(j - 1) : func[k] = "{}"})
                       IN  i = j + before \/ (func[j] = "{}" /\ i = j + before + 1)
            before == Cardinality({k \in 1..(src - 1) : func[k] = "{}"})
        IN  IF i = src + before THEN func[src] ELSE "::int"]

\* C22: a successful applymap(template, numeric_only) appends, to each
\* boolean target column, the template with every placeholder rewritten to
\* {}::int and, to each other target column, the template unchanged; the
\* targets are the numeric columns when numeric_only, all the columns if
\* not; the other columns keep their chains.
C22_ApplymapCastsBooleans ==
    [][(lastCall'.op = "vDF.applymap" /\ lastCall'.raised = "")
         => LET func == lastCall'.args.func
                targets == IF lastCall'.args.numeric_only
                           THEN {c \in Range(columns) :
                                    category(Relation, c) \in {"int", "float", "bool"}}
                           ELSE Range(columns)
            IN  \A c \in Range(columns) :
                    IF c \in targets
                    THEN transf'[c] =
                           Append(transf[c],
                                  <<IF ctype(Relation, c) = "boolean"
                                    THEN WithIntCast(func) ELSE func,
                                    lastCall'.args.ct, to_category(lastCall'.args.ct)>>)
                    ELSE transf'[c] = transf[c]]_vars

\* applymap on all the columns of a relation with a boolean and a text column
C22_Witness ==
    /\ lastCall.op = "vDF.applymap"
    /\ lastCall.raised = ""
    /\ ~lastCall.args.numeric_only
    /\ lastCall.args.func = <<"{}", "*", "{}">>
    /\ transf["\"a\""][1][2] = "boolean"
    /\ transf["\"b\""][1][2] = "varchar"
    /\ Len(transf["\"a\""]) = 2
    /\ transf["\"a\""][2][1] = <<"{}", "::int", "*", "{}", "::int">>
    /\ transf["\"b\""][2][1] = <<"{}", "*", "{}">>

\* the step a successful probe of ABS({}) appends
AbsStep(ct) == <<<<"ABS(", "{}", ")">>, ct, to_category(ct)>>

\* C26: a successful vDataColumn.abs() appends exactly one step ABS({}) to
\* that column's chain; a successful vDataFrame.abs() without columns appends
\* exactly one step ABS({}) to every numeric non-boolean column and leaves
\* the chains of the boolean and the non-numeric columns unchanged; both
\* return the relation they were called on.
C26_AbsSteps ==
    [][/\ (lastCall'.op = "vDC.abs" /\ lastCall'.raised = "")
          => /\ \E ct \in Types :
                  transf'[lastCall'.args.col] =
                      Append(transf[lastCall'.args.col], AbsStep(ct))
             /\ \A c \in Range(columns) \ {lastCall'.args.col} :
                  transf'[c] = transf[c]
             /\ lastCall'.ret = "self"
       /\ (lastCall'.op = "vDF.abs" /\ lastCall'.args.cols = <<>>
              /\ lastCall'.raised = "")
          => /\ \A c \in Range(columns) :
                  IF /\ category(Relation, c) \in {"int", "float"}
                     /\ ctype(Relation, c) # "boolean"
                  THEN transf'[c] = Append(transf[c], AbsStep(lastCall'.args.ct))
                  ELSE transf'[c] = transf[c]
             /\ lastCall'.ret = "self"]_vars

\* abs() of a relation with a boolean and a numeric column
C26_Witness ==
    /\ lastCall.op = "vDF.abs"
    /\ lastCall.args.cols = <<>>
    /\ lastCall.raised = ""
    /\ transf["\"a\""][1][2] = "boolean"
    /\ transf["\"b\""][1][2] = "float"
    /\ Len(transf["\"a\""]) = 1
    /\ Len(transf["\"b\""]) = 2
    /\ transf["\"b\""][2][1] = <<"ABS(", "{}", ")">>

OperatorForms == {"__abs__", "__ceil__", "__floor__", "__round__"}

\* C29: __abs__, __ceil__, __floor__ and __round__ leave every chain, the
\* catalog, exclude_columns and the history of the relation they are called
\* on unchanged and return a new relation; vdf.abs() and vdf.apply() return
\* the relation they were called on, with the changes they made.
C29_OperatorFormsCopy ==
    [][/\ lastCall'.op \in OperatorForms
          => /\ RelationUnchanged
             /\ lastCall'.raised = "" => lastCall'.ret = "copy"
       /\ (lastCall'.op \in {"vDF.abs", "vDF.apply"} /\ lastCall'.raised = "")
          => /\ lastCall'.ret = "self"
             /\ lastCall'.value.transf = transf'
             /\ lastCall'.value.history = history']_vars

\* abs(vdf) returned a relation with a longer chain and left vdf as built
C29_Witness ==
    /\ lastCall.op = "__abs__"
    /\ lastCall.raised = ""
    /\ lastCall.ret = "copy"
    /\ Len(lastCall.value.transf["\"a\""]) = 2
    /\ Len(transf["\"a\""]) = 1
    /\ history = <<>>
    /\ lastCall.value.history # <<>>

-----------------------------------------------------------------------------
\* the product of the rows
RECURSIVE TrueProduct(_)
TrueProduct(rows) ==
    IF rows = <<>> THEN 1 ELSE Head(rows) * TrueProduct(Tail(rows))

Sign(x) == IF x > 0 THEN 1 ELSE IF x < 0 THEN -1 ELSE 0

\* C23: analytic(func = 'prod', columns = [x], by = ...) defines the new
\* column as DECODE(ABS(MOD(SUM(CASE WHEN x < 0 THEN 1 ELSE 0 END) OVER
\* (partition), 2)), 0, 1, -1) * POWER(10, SUM(LOG(ABS(x))) OVER (partition));
\* on every partition of non-zero integers the first factor is 1 when the
\* number of negative values is even and -1 when it is odd, and the sign
\* of the value equals the sign of the product of the rows.
C23_ProductSign ==
    [][(/\ AnalyticCalled
        /\ lastCall'.args.func = "prod"
        /\ lastCall'.raised = "")
         => LET x == lastCall'.args.columns[1]
                by == PartitionBy(lastCall'.args.by)
                rows == lastCall'.rows
                negatives == Cardinality({i \in DOMAIN rows : rows[i] < 0})
            IN  /\ LastTemplate(quote_ident(lastCall'.args.name)) =
                       <<"DECODE(ABS(MOD(SUM(CASE WHEN", x,
                         "< 0 THEN 1 ELSE 0 END) OVER (">> \o by
                       \o <<"), 2)), 0, 1, -1) * POWER(10, SUM(LOG(ABS(", x,
                            "))) OVER (">> \o by \o <<"))">>
                /\ SignFactor(rows) = (IF negatives % 2 = 0 THEN 1 ELSE -1)
                /\ Sign(lastCall'.value) = Sign(TrueProduct(rows))]_vars

\* prod on a partition with an odd number of negative values
C23_Witness ==
    /\ lastCall.op = "vDF.analytic"
    /\ lastCall.args.func = "prod"
    /\ lastCall.args.by # <<>>
    /\ lastCall.raised = ""
    /\ lastCall.rows = <<-2, 3, 3>>
    /\ lastCall.value = -18

-----------------------------------------------------------------------------
\* C24: the history log is append-only over any sequence of operations;
\* each successful vDataColumn.apply appends one '[Apply]' entry describing
\* the transform, as the last entry, and leaves the earlier entries
\* unchanged and in order; a failed apply appends no entry.
C24_HistoryAppendOnly ==
    [][/\ IsPrefix(history, history')
       /\ ApplySucceeded
            => /\ Len(history') = Len(history) + 1
               /\ history'[Len(history')] =
                     <<"[Apply]", StripQuotes(lastCall'.args.col),
                       Substitute(lastCall'.args.func, lastCall'.args.col)>>
       /\ (ApplyCalled /\ lastCall'.raised # "") => history' = history]_vars

\* a second successful apply, with a copy, after a first one
C24_Witness ==
    /\ lastCall.op = "vDC.apply"
    /\ lastCall.raised = ""
    /\ lastCall.args.copy_name # ""
    /\ Len(history) = 2
    /\ history[1][1] = "[Apply]"
    /\ history[2][1] = "[Apply]"
    /\ history[2][3] # lastCall.args.func

-----------------------------------------------------------------------------
\* the scratch aliases a higher-moment call names
ScratchAliasesOf(in) ==
    LET steps == ScratchSteps(verticapy_agg_name(in.func), in.columns[1],
                              PartitionBy(in.by), in.random_nb)
    IN  {quote_ident(steps[i].name) : i \in DOMAIN steps}

-----------------------------------------------------------------------------
\* the statistics a higher-moment function needs, in the order of the claim
ScratchKindsOf(func) ==
    CASE func \in {"skewness", "kurtosis", "jb"} -> <<"mean", "std", "count">>
      [] func = "aad" -> <<"mean">>
      [] func = "mad" -> <<"median">>

\* C27: a higher-moment analytic call first creates its scratch columns
\* (mean, std and count for skewness, kurtosis and jb; mean for aad; median
\* for mad), then the result column, which refers to them, and only after
\* the result column was created appends the scratch aliases of the call,
\* and no other alias, to exclude_columns.
C27_HigherMomentOrder ==
    [][(HigherMomentCalled /\ lastCall'.args.columns # <<>>)
         => LET in == lastCall'.args
                kinds == ScratchKindsOf(verticapy_agg_name(in.func))
                names == [i \in DOMAIN kinds |->
                             StripQuotes(in.columns[1]) \o "_" \o kinds[i] \o "_"
                             \o ToString(in.random_nb)]
                scratch == [i \in DOMAIN kinds |-> "\"" \o names[i] \o "\""]
                result == "\"" \o in.name \o "\""
                created == scratch \o <<result>>
            IN  IF lastCall'.raised = ""
                THEN /\ columns' = columns \o created
                     /\ \A i \in DOMAIN names :
                            \E k \in DOMAIN LastTemplate(result) :
                                LastTemplate(result)[k] = names[i]
                     /\ exclude_columns' = exclude_columns \o scratch
                ELSE /\ \E n \in 0..Len(scratch) :
                            columns' = columns \o SubSeq(created, 1, n)
                     /\ exclude_columns' = exclude_columns]_vars

\* a successful jb call after a mad call that failed on its result column
C27_Witness ==
    /\ lastCall.op = "vDF.analytic"
    /\ lastCall.args.func = "jb"
    /\ lastCall.raised = ""
    /\ ncalls = 2
    /\ Len(columns) = 7
    /\ Len(exclude_columns) = 3

-----------------------------------------------------------------------------
\* C28: analytic with lead, lag, first_value, last_value or pct_change and no
\* input column, or with row_number, percent_rank, dense_rank or rank and an
\* input column, raises ValueError before any query and adds no column; an
\* accepted call compiles lead and lag with ', <offset>' after the column,
\* first_value and last_value with ' IGNORE NULLS', exponential_moving_average
\* with ', <x_smoothing>', and pct_change as col / LAG(col) OVER (...).
C28_RankingValidation ==
    [][(AnalyticCalled /\ Dispatched(lastCall'.args.func) \in Ranking)
         => LET in == lastCall'.args
                func == Dispatched(in.func)
                col == in.columns[1]
                over == <<") OVER (">> \o PartitionBy(in.by)
                        \o get_sort_syntax(in.order_by)
                expr == LastTemplate(quote_ident(in.name))
            IN  /\ (in.columns = <<>>
                       /\ func \in {"lead", "lag", "first_value", "last_value",
                                     "pct_change"})
                     => RejectedBeforeQuery({"ValueError"})
                /\ (in.columns # <<>>
                       /\ func \in {"row_number", "percent_rank", "dense_rank", "rank"})
                     => RejectedBeforeQuery({"ValueError"})
                /\ (lastCall'.raised = "" /\ in.columns # <<>>)
                     => /\ func = "lead"
                             => expr = <<"LEAD", "(", col, ",", ToString(in.offset)>>
                                       \o over \o <<")">>
                        /\ func = "lag"
                             => expr = <<"LAG", "(", col, ",", ToString(in.offset)>>
                                       \o over \o <<")">>
                        /\ func = "first_value"
                             => expr = <<"FIRST_VALUE", "(", col, "IGNORE NULLS">>
                                       \o over \o <<")">>
                        /\ func = "last_value"
                             => expr = <<"LAST_VALUE", "(", col, "IGNORE NULLS">>
                                       \o over \o <<")">>
                        /\ func = "exponential_moving_average"
                             => expr = <<"EXPONENTIAL_MOVING_AVERAGE", "(", col, ",",
                                         in.x_smoothing>> \o over \o <<")">>
                        /\ func = "pct_change"
                             => expr = <<col, "/ (LAG(", col>> \o over \o <<"))">>]_vars

\* lag with an offset other than the default, partitioned and ordered
C28_Witness ==
    /\ lastCall.op = "vDF.analytic"
    /\ lastCall.args.func = "lag"
    /\ lastCall.args.offset = 2
    /\ lastCall.args.by # <<>>
    /\ lastCall.args.order_by # <<>>
    /\ lastCall.raised = ""
    /\ transf["\"r\""][Len(transf["\"r\""])][1][4] = ","
    /\ transf["\"r\""][Len(transf["\"r\""])][1][5] = "2"

-----------------------------------------------------------------------------
\* the name of the file of a path: the characters after its last "/"
FileNameOf(path) ==
    LET slashes == {i \in DOMAIN path : path[i] = "/"}
        last == IF slashes = {} THEN 0
                ELSE CHOOSE i \in slashes : \A j \in slashes : j <= i
    IN  SubSeq(path, last + 1, Len(path))

EndsWithShp(name) ==
    /\ Len(name) >= 3
    /\ name[Len(name) - 2] = "s"
    /\ name[Len(name) - 1] = "h"
    /\ name[Len(name)] = "p"

\* C30: read_shp raises ExtensionError before giving any statement to the
\* engine when the last three characters of the file name are not 'shp';
\* otherwise it gives the STV_ShpCreateTable query, the CREATE TABLE
\* statement of "schema"."table_name" and the COPY statement, in this order
\* and nothing else, and no statement after one that raised.
C30_ReadShpStatements ==
    [][lastCall'.op = "read_shp"
         => LET in == lastCall'.args
                issued == SubSeq(executed', Len(executed) + 1, Len(executed'))
                kinds == <<"STV_ShpCreateTable", "CREATE TABLE", "COPY">>
            IN  /\ IsPrefix(executed, executed')
                /\ IF ~EndsWithShp(FileNameOf(in.path))
                   THEN lastCall'.raised = "ExtensionError" /\ issued = <<>>
                   ELSE /\ lastCall'.raised # "ExtensionError"
                        /\ Len(issued) \in 1..3
                        /\ \A i \in DOMAIN issued : issued[i].kind = kinds[i]
                        /\ lastCall'.raised = "" => Len(issued) = 3
                        /\ lastCall'.raised = "QueryError"
                             => Len(issued) = in.failAt
                        /\ lastCall'.raised \notin {"", "QueryError"}
                             => Len(issued) = 1
                        /\ (Len(issued) >= 2 /\ in.schema # <<>>
                               /\ in.table_name # <<>>)
                             => /\ issued[2].schema = "\"" \o Join(in.schema) \o "\""
                                /\ issued[2].table
                                     = "\"" \o Join(in.table_name) \o "\""]_vars

\* a read that the engine refused at its second statement
C30_Witness ==
    /\ lastCall.op = "read_shp"
    /\ lastCall.args.path = <<"d", "/", "c", ".", "s", "h", "p">>
    /\ lastCall.args.failAt = 2
    /\ lastCall.raised = "QueryError"
    /\ Len(executed) = 2
    /\ executed[2].kind = "CREATE TABLE"
    /\ executed[2].table = "\"c\""

====
